---------------------------- MODULE Spec2Model ----------------------------
(***************************************************************************)
(* A model of leptos-store's hydration protocol (serialize on the server,  *)
(* embed in a script element, read from the DOM, deserialize on the        *)
(* client) and of its context provider (provide_store / use_store).        *)
(*                                                                         *)
(* Text is modelled as a sequence of one-character strings, so that        *)
(* str::replace, format!, serde_json::to_string and serde_json::from_str   *)
(* are computed character by character, as the code computes them.         *)
(***************************************************************************)
EXTENDS Integers, Sequences, FiniteSets, TLC

(***************************************************************************)
(* Text helpers                                                            *)
(***************************************************************************)
QUOTE == "\""
BSLASH == "\\"

\* s[i], or "EOF" past the end (no character is three letters long)
At(s, i) == IF i >= 1 /\ i <= Len(s) THEN s[i] ELSE "EOF"

\* does `pat` occur in s at position i
MatchAt(s, i, pat) ==
  /\ i >= 1
  /\ i + Len(pat) - 1 <= Len(s)
  /\ \A k \in 1..Len(pat) : s[i + k - 1] = pat[k]

\* char::to_ascii_lowercase / str::to_lowercase over the letters in use
ToLower(c) ==
  CASE c = "S" -> "s" [] c = "C" -> "c" [] c = "R" -> "r"
    [] c = "I" -> "i" [] c = "P" -> "p" [] c = "T" -> "t" [] c = "A" -> "a"
    [] OTHER -> c

\* str::to_uppercase over the letters in use
ToUpper(c) ==
  CASE c = "s" -> "S" [] c = "c" -> "C" [] c = "r" -> "R"
    [] c = "i" -> "I" [] c = "p" -> "P" [] c = "t" -> "T" [] c = "a" -> "A"
    [] c = "b" -> "B" [] OTHER -> c

\* str::contains
Contains(s, pat) == \E i \in 1..(Len(s) + 1) : MatchAt(s, i, pat)

\* number of positions at which `pat` occurs in s
Occurrences(s, pat) == Cardinality({i \in 1..(Len(s) + 1) : MatchAt(s, i, pat)})

StartsWith(s, pat) == MatchAt(s, 1, pat)
EndsWith(s, pat) == MatchAt(s, Len(s) - Len(pat) + 1, pat)

RECURSIVE ReplaceFrom(_, _, _, _)
ReplaceFrom(s, i, from, to) ==
  IF i > Len(s) THEN <<>>
  ELSE IF MatchAt(s, i, from)
       THEN to \o ReplaceFrom(s, i + Len(from), from, to)
       ELSE <<s[i]>> \o ReplaceFrom(s, i + 1, from, to)

\* str::replace: every non-overlapping match, left to right
ReplaceAll(s, from, to) == ReplaceFrom(s, 1, from, to)

RECURSIVE Concat(_)
Concat(ss) == IF ss = <<>> THEN <<>> ELSE Head(ss) \o Concat(Tail(ss))

(***************************************************************************)
(* Literals of the program                                                 *)
(***************************************************************************)
HYDRATION_SCRIPT_PREFIX ==
  <<"_","_","L","E","P","T","O","S","_","S","T","O","R","E","_",
    "S","T","A","T","E","_","_">>

SCRIPT_CLOSE == <<"<","/","s","c","r","i","p","t",">">>
SCRIPT_CLOSE_ESCAPED == <<"<",BSLASH,"/","s","c","r","i","p","t",">">>

\* the three literal parts of the format string of hydration_script_html
HTML_OPEN == <<"<","s","c","r","i","p","t"," ","i","d","=",QUOTE>>
HTML_TYPE ==
  <<QUOTE," ","t","y","p","e","=",QUOTE,"a","p","p","l","i","c","a","t",
    "i","o","n","/","j","s","o","n",QUOTE,">">>

(***************************************************************************)
(* hydration.rs: script id, escaping, script element                       *)
(***************************************************************************)
\* (variant) only the first character of the key goes into the id
hydration_script_id_short(store_key) ==
  HYDRATION_SCRIPT_PREFIX \o SubSeq(store_key, 1, 1)

\* format!("{HYDRATION_SCRIPT_PREFIX}{store_key}")
hydration_script_id(store_key) == HYDRATION_SCRIPT_PREFIX \o store_key

\* (variant) only the first match is replaced, as str::replacen(.., 1) does
RECURSIVE ReplaceFirstFrom(_, _, _, _)
ReplaceFirstFrom(s, i, from, to) ==
  IF i > Len(s) THEN <<>>
  ELSE IF MatchAt(s, i, from)
       THEN to \o SubSeq(s, i + Len(from), Len(s))
       ELSE <<s[i]>> \o ReplaceFirstFrom(s, i + 1, from, to)

EscapeFirstScriptClose(data) ==
  ReplaceFirstFrom(data, 1, SCRIPT_CLOSE, SCRIPT_CLOSE_ESCAPED)

\* (variant) the closing tag is escaped as an HTML entity
EscapeScriptCloseAsEntity(data) ==
  ReplaceAll(data, SCRIPT_CLOSE,
             <<"&","l","t",";","/","s","c","r","i","p","t",">">>)

\* data.replace("</script>", "<\\/script>")
EscapeScriptClose(data) == ReplaceAll(data, SCRIPT_CLOSE, SCRIPT_CLOSE_ESCAPED)

hydration_script_html(store_key, data) ==
  HTML_OPEN \o hydration_script_id(store_key) \o HTML_TYPE
    \o EscapeScriptClose(data) \o SCRIPT_CLOSE


(***************************************************************************)
(* serde_json::to_string of the store state (serialize_state)              *)
(*                                                                         *)
(* The state is the struct of the hydration tests:                         *)
(*   count: i32, name: String, items: Vec<String>, optional: Option<bool>  *)
(* A Vec is a sequence; Option<bool> is <<>> (None) or <<b>> (Some(b)).     *)
(***************************************************************************)
DIGITS == <<"0","1","2","3","4","5","6","7","8","9">>
I32_MAX == 2147483647

RECURSIVE FormatNat(_)
FormatNat(n) ==
  IF n < 10 THEN <<DIGITS[n + 1]>>
  ELSE FormatNat(n \div 10) \o <<DIGITS[(n % 10) + 1]>>

\* itoa: the decimal text of an i32
FormatInt(n) == IF n < 0 THEN <<"-">> \o FormatNat(-n) ELSE FormatNat(n)

\* serde_json's string escape: '"' and '\' get a backslash; every other
\* character of the alphabet used here is written as it is ('/' and '<'
\* included)
JsonEscapeChar(c) ==
  IF c = QUOTE THEN <<BSLASH, QUOTE>>
  ELSE IF c = BSLASH THEN <<BSLASH, BSLASH>>
  ELSE <<c>>

RECURSIVE JsonEscape(_)
JsonEscape(s) ==
  IF s = <<>> THEN <<>> ELSE JsonEscapeChar(Head(s)) \o JsonEscape(Tail(s))

JsonString(s) == <<QUOTE>> \o JsonEscape(s) \o <<QUOTE>>

RECURSIVE JsonStringList(_)
JsonStringList(items) ==
  IF items = <<>> THEN <<>>
  ELSE IF Len(items) = 1 THEN JsonString(items[1])
  ELSE JsonString(Head(items)) \o <<",">> \o JsonStringList(Tail(items))

JsonArray(items) == <<"[">> \o JsonStringList(items) \o <<"]">>

JsonOptBool(o) ==
  IF o = <<>> THEN <<"n","u","l","l">>
  ELSE IF o[1] THEN <<"t","r","u","e">>
  ELSE <<"f","a","l","s","e">>

KEY_COUNT == <<"c","o","u","n","t">>
KEY_NAME == <<"n","a","m","e">>
KEY_ITEMS == <<"i","t","e","m","s">>
KEY_OPTIONAL == <<"o","p","t","i","o","n","a","l">>

\* the derived Serialize of the struct: fields in declaration order
ToJson(st) ==
  <<"{">> \o JsonString(KEY_COUNT) \o <<":">> \o FormatInt(st.count)
    \o <<",">> \o JsonString(KEY_NAME) \o <<":">> \o JsonString(st.name)
    \o <<",">> \o JsonString(KEY_ITEMS) \o <<":">> \o JsonArray(st.items)
    \o <<",">> \o JsonString(KEY_OPTIONAL) \o <<":">> \o JsonOptBool(st.optional)
    \o <<"}">>

(***************************************************************************)
(* serde_json::from_str into the store state (from_hydrated_state)         *)
(*                                                                         *)
(* A recursive-descent parser over positions. Every parse result is        *)
(* [ok, val, next]: next is the position after the parsed text.            *)
(***************************************************************************)
Fail == [ok |-> FALSE, val |-> <<>>, next |-> 0]
Done(v, n) == [ok |-> TRUE, val |-> v, next |-> n]

IsWs(c) == c \in {" ", "\n", "\t", "\r"}

RECURSIVE SkipWs(_, _)
SkipWs(s, i) == IF IsWs(At(s, i)) THEN SkipWs(s, i + 1) ELSE i

\* the escapes of a JSON string; \b and \uXXXX never occur over the
\* alphabet used here and are not decoded
Unescape(e) ==
  CASE e = QUOTE -> <<QUOTE>>
    [] e = BSLASH -> <<BSLASH>>
    [] e = "/" -> <<"/">>
    [] e = "n" -> <<"\n">>
    [] e = "t" -> <<"\t">>
    [] e = "r" -> <<"\r">>
    [] OTHER -> <<>>

RECURSIVE ParseStringBody(_, _, _)
ParseStringBody(s, i, acc) ==
  IF At(s, i) \in {"EOF", "\n", "\t", "\r"} THEN Fail
  ELSE IF s[i] = QUOTE THEN Done(acc, i + 1)
  ELSE IF s[i] = BSLASH
       THEN (IF Unescape(At(s, i + 1)) = <<>> THEN Fail
             ELSE ParseStringBody(s, i + 2, acc \o Unescape(s[i + 1])))
  ELSE ParseStringBody(s, i + 1, acc \o <<s[i]>>)

ParseString(s, i) ==
  IF At(s, i) = QUOTE THEN ParseStringBody(s, i + 1, <<>>) ELSE Fail

DigitVal(c) == CHOOSE d \in 0..9 : DIGITS[d + 1] = c
IsDigit(c) == \E d \in 0..9 : DIGITS[d + 1] = c

\* whether acc * 10 + d (acc * 10 - d when neg) is outside i32
Overflows(acc, d, neg) ==
  IF neg
  THEN acc < -(I32_MAX \div 10)
         \/ (acc = -(I32_MAX \div 10) /\ d > (I32_MAX % 10) + 1)
  ELSE acc > I32_MAX \div 10 \/ (acc = I32_MAX \div 10 /\ d > I32_MAX % 10)

\* digits into an i32, accumulated with the sign so that i32::MIN is read;
\* a value outside the type is an error
RECURSIVE ParseDigits(_, _, _, _)
ParseDigits(s, i, acc, neg) ==
  IF ~IsDigit(At(s, i)) THEN Done(acc, i)
  ELSE IF Overflows(acc, DigitVal(s[i]), neg) THEN Fail
  ELSE ParseDigits(s, i + 1,
                   IF neg THEN acc * 10 - DigitVal(s[i])
                   ELSE acc * 10 + DigitVal(s[i]),
                   neg)

\* the digits of a number from position j: no leading zero
ParseIntDigits(s, j, neg) ==
  IF ~IsDigit(At(s, j)) THEN Fail
  ELSE IF s[j] = "0" THEN (IF IsDigit(At(s, j + 1)) THEN Fail
                            ELSE Done(0, j + 1))
  ELSE ParseDigits(s, j, 0, neg)

\* a number with a fraction or an exponent is no i32
IntegerOnly(s, r) ==
  IF ~r.ok THEN Fail
  ELSE IF At(s, r.next) \in {".", "e", "E"} THEN Fail
  ELSE r

\* an i32: optional '-', then the digits
ParseInt(s, i) ==
  IntegerOnly(s, ParseIntDigits(s, IF At(s, i) = "-" THEN i + 1 ELSE i,
                                At(s, i) = "-"))

ParseOptBool(s, i) ==
  IF MatchAt(s, i, <<"n","u","l","l">>) THEN Done(<<>>, i + 4)
  ELSE IF MatchAt(s, i, <<"t","r","u","e">>) THEN Done(<<TRUE>>, i + 4)
  ELSE IF MatchAt(s, i, <<"f","a","l","s","e">>) THEN Done(<<FALSE>>, i + 5)
  ELSE Fail

RECURSIVE ParseArrayRest(_, _, _)

\* an element e was read: it joins the array
ArrayElement(s, e, acc) ==
  IF e.ok THEN ParseArrayRest(s, e.next, Append(acc, e.val)) ELSE Fail

\* after an element of the array, at j: ',' and another element, or ']'
ArrayNext(s, j, acc) ==
  IF At(s, j) = "]" THEN Done(acc, j + 1)
  ELSE IF At(s, j) = ","
       THEN ArrayElement(s, ParseString(s, SkipWs(s, j + 1)), acc)
  ELSE Fail

ParseArrayRest(s, i, acc) == ArrayNext(s, SkipWs(s, i), acc)

\* after '[', at j: ']' or the first element
ArrayFirst(s, j) ==
  IF At(s, j) = "]" THEN Done(<<>>, j + 1)
  ELSE ArrayElement(s, ParseString(s, j), <<>>)

ParseStringArray(s, i) ==
  IF At(s, i) # "[" THEN Fail ELSE ArrayFirst(s, SkipWs(s, i + 1))

\* the value of a field the struct does not have is read and dropped
\* (a string, an array of strings, a literal or a number)
ParseIgnored(s, i) ==
  IF At(s, i) = QUOTE THEN ParseString(s, i)
  ELSE IF At(s, i) = "[" THEN ParseStringArray(s, i)
  ELSE IF At(s, i) \in {"n", "t", "f"} THEN ParseOptBool(s, i)
  ELSE ParseInt(s, i)

ParseField(s, i, key) ==
  CASE key = KEY_COUNT -> ParseInt(s, i)
    [] key = KEY_NAME -> ParseString(s, i)
    [] key = KEY_ITEMS -> ParseStringArray(s, i)
    [] key = KEY_OPTIONAL -> ParseOptBool(s, i)
    [] OTHER -> ParseIgnored(s, i)

FIELDS == {KEY_COUNT, KEY_NAME, KEY_ITEMS, KEY_OPTIONAL}

\* `got` maps the fields read so far to their values
WithField(got, key, val) ==
  IF key \in FIELDS
  THEN [f \in (DOMAIN got) \cup {key} |-> IF f = key THEN val ELSE got[f]]
  ELSE got

RECURSIVE ParseMembers(_, _, _)

\* after a member, at e: '}' or ',' and another member
MemberEnd(s, e, got) ==
  IF At(s, e) = "}" THEN Done(got, e + 1)
  ELSE IF At(s, e) = "," THEN ParseMembers(s, SkipWs(s, e + 1), got)
  ELSE Fail

\* the value v of the member `key` was read
MemberValue(s, key, v, got) ==
  IF ~v.ok THEN Fail
  ELSE MemberEnd(s, SkipWs(s, v.next), WithField(got, key, v.val))

\* the key k was read, c is the position after it: ':' and the value
MemberColon(s, k, c, got) ==
  IF At(s, c) # ":" THEN Fail
  ELSE IF k.val \in DOMAIN got THEN Fail  \* duplicate field
  ELSE MemberValue(s, k.val, ParseField(s, SkipWs(s, c + 1), k.val), got)

MemberKey(s, k, got) ==
  IF ~k.ok THEN Fail ELSE MemberColon(s, k, SkipWs(s, k.next), got)

\* the members of the object from position i (at a key)
ParseMembers(s, i, got) == MemberKey(s, ParseString(s, i), got)

NoFields == [f \in {} |-> <<>>]

\* after '{', at j: '}' or the first member
ObjectFirst(s, j) ==
  IF At(s, j) = "}" THEN Done(NoFields, j + 1)
  ELSE ParseMembers(s, j, NoFields)

ParseObject(s, i) ==
  IF At(s, i) # "{" THEN Fail ELSE ObjectFirst(s, SkipWs(s, i + 1))

\* the object o read from data becomes the state: nothing but whitespace
\* after it; a missing Option field is None, any other missing field an
\* error
StateOfObject(data, o) ==
  IF ~o.ok THEN Fail
  ELSE IF SkipWs(data, o.next) # Len(data) + 1 THEN Fail
  ELSE IF ~({KEY_COUNT, KEY_NAME, KEY_ITEMS} \subseteq DOMAIN o.val) THEN Fail
  ELSE Done([count |-> o.val[KEY_COUNT],
             name |-> o.val[KEY_NAME],
             items |-> o.val[KEY_ITEMS],
             optional |-> IF KEY_OPTIONAL \in DOMAIN o.val
                          THEN o.val[KEY_OPTIONAL] ELSE <<>>],
            o.next)

\* serde_json::from_str::<State>
FromJson(data) == StateOfObject(data, ParseObject(data, SkipWs(data, 1)))


(***************************************************************************)
(* serde_json::from_str for the state structs of the examples: the text    *)
(* is read as a JSON value, which the derived Deserialize of the struct    *)
(* then visits (the Decode operators below)                                *)
(***************************************************************************)
\* JSON values: one record shape, told apart by t
JNull == [t |-> "null", str |-> <<>>, num |-> 0, items |-> <<>>, members |-> <<>>]
JString(x) == [JNull EXCEPT !.t = "string", !.str = x]
JNumber(n) == [JNull EXCEPT !.t = "number", !.num = n]
JBool(b) == [JNull EXCEPT !.t = IF b THEN "true" ELSE "false"]
JArray(xs) == [JNull EXCEPT !.t = "array", !.items = xs]
\* the members of an object in the order of the text: <<key, value>>
JObject(ms) == [JNull EXCEPT !.t = "object", !.members = ms]

StringValue(r) == IF r.ok THEN Done(JString(r.val), r.next) ELSE Fail
NumberValue(r) == IF r.ok THEN Done(JNumber(r.val), r.next) ELSE Fail

ParseLiteral(s, i) ==
  IF MatchAt(s, i, <<"n","u","l","l">>) THEN Done(JNull, i + 4)
  ELSE IF MatchAt(s, i, <<"t","r","u","e">>) THEN Done(JBool(TRUE), i + 4)
  ELSE IF MatchAt(s, i, <<"f","a","l","s","e">>) THEN Done(JBool(FALSE), i + 5)
  ELSE Fail

RECURSIVE ParseValue(_, _)
RECURSIVE ParseElements(_, _, _)
RECURSIVE ParsePairs(_, _, _)

\* an element e of an array was read
ElementRead(s, e, acc) ==
  IF e.ok THEN ParseElements(s, e.next, Append(acc, e.val)) ELSE Fail

\* after an element, at j: ',' and another element, or ']'
ElementsNext(s, j, acc) ==
  IF At(s, j) = "]" THEN Done(JArray(acc), j + 1)
  ELSE IF At(s, j) = ","
       THEN ElementRead(s, ParseValue(s, SkipWs(s, j + 1)), acc)
  ELSE Fail

ParseElements(s, i, acc) == ElementsNext(s, SkipWs(s, i), acc)

\* after '[', at j: ']' or the first element
ElementsFirst(s, j) ==
  IF At(s, j) = "]" THEN Done(JArray(<<>>), j + 1)
  ELSE ElementRead(s, ParseValue(s, j), <<>>)

\* after a member, at e: '}' or ',' and another member
PairEnd(s, e, acc) ==
  IF At(s, e) = "}" THEN Done(JObject(acc), e + 1)
  ELSE IF At(s, e) = "," THEN ParsePairs(s, SkipWs(s, e + 1), acc)
  ELSE Fail

\* the value v of the member `key` was read
PairValue(s, key, v, acc) ==
  IF ~v.ok THEN Fail
  ELSE PairEnd(s, SkipWs(s, v.next), Append(acc, <<key, v.val>>))

\* the key k was read, c is the position after it: ':' and the value
PairColon(s, k, c, acc) ==
  IF At(s, c) # ":" THEN Fail
  ELSE PairValue(s, k.val, ParseValue(s, SkipWs(s, c + 1)), acc)

PairKey(s, k, acc) ==
  IF ~k.ok THEN Fail ELSE PairColon(s, k, SkipWs(s, k.next), acc)

ParsePairs(s, i, acc) == PairKey(s, ParseString(s, i), acc)

\* after '{', at j: '}' or the first member
PairsFirst(s, j) ==
  IF At(s, j) = "}" THEN Done(JObject(<<>>), j + 1)
  ELSE ParsePairs(s, j, <<>>)

ParseValue(s, i) ==
  IF At(s, i) = QUOTE THEN StringValue(ParseString(s, i))
  ELSE IF At(s, i) = "[" THEN ElementsFirst(s, SkipWs(s, i + 1))
  ELSE IF At(s, i) = "{" THEN PairsFirst(s, SkipWs(s, i + 1))
  ELSE IF At(s, i) \in {"n", "t", "f"} THEN ParseLiteral(s, i)
  ELSE NumberValue(ParseInt(s, i))

\* one value, and nothing but whitespace after it
WholeText(data, r) ==
  IF ~r.ok THEN Fail
  ELSE IF SkipWs(data, r.next) # Len(data) + 1 THEN Fail
  ELSE r

ParseDocument(data) == WholeText(data, ParseValue(data, SkipWs(data, 1)))

\* the positions of the members of object o whose key is `key`
Members(o, key) == {i \in DOMAIN o.members : o.members[i][1] = key}

\* the value of the member `key` of o
Member(o, key) == o.members[CHOOSE i \in Members(o, key) : TRUE][2]

\* a struct is read from an object in which no field occurs twice
StructOf(v, fields) ==
  /\ v.t = "object"
  /\ \A k \in fields : Cardinality(Members(v, k)) <= 1

\* the visitors of the field types
DecodeString(v) == IF v.t = "string" THEN Done(v.str, 0) ELSE Fail
DecodeBool(v) == IF v.t \in {"true", "false"} THEN Done(v.t = "true", 0) ELSE Fail
DecodeU64(v) == IF v.t = "number" /\ v.num >= 0 THEN Done(v.num, 0) ELSE Fail

\* Option<T>: null is None, any other value is Some of the T read from it
Some(r) == IF r.ok THEN Done(<<r.val>>, 0) ELSE Fail
DecodeOptString(v) == IF v.t = "null" THEN Done(<<>>, 0) ELSE Some(DecodeString(v))

(***************************************************************************)
(* auth_store.rs: AuthState and its derived Serialize / Deserialize        *)
(*                                                                         *)
(* An Option is <<>> (None) or <<x>> (Some(x)). An AuthError is            *)
(* [kind, msg]; it is never written.                                       *)
(***************************************************************************)
KEY_ID == <<"i","d">>
KEY_EMAIL == <<"e","m","a","i","l">>
KEY_AVATAR_URL == <<"a","v","a","t","a","r","_","u","r","l">>
KEY_ACCESS_TOKEN == <<"a","c","c","e","s","s","_","t","o","k","e","n">>
KEY_REFRESH_TOKEN == <<"r","e","f","r","e","s","h","_","t","o","k","e","n">>
KEY_EXPIRES_AT == <<"e","x","p","i","r","e","s","_","a","t">>
KEY_USER == <<"u","s","e","r">>
KEY_TOKEN == <<"t","o","k","e","n">>
KEY_REMEMBER_ME == <<"r","e","m","e","m","b","e","r","_","m","e">>

\* "key": in front of the value of a field
JsonKey(k) == JsonString(k) \o <<":">>

JsonBool(b) == IF b THEN <<"t","r","u","e">> ELSE <<"f","a","l","s","e">>
JsonOptString(o) == IF o = <<>> THEN <<"n","u","l","l">> ELSE JsonString(o[1])

\* struct User { id, email, name, avatar_url }
UserToJson(u) ==
  <<"{">> \o JsonKey(KEY_ID) \o JsonString(u.id)
    \o <<",">> \o JsonKey(KEY_EMAIL) \o JsonString(u.email)
    \o <<",">> \o JsonKey(KEY_NAME) \o JsonString(u.name)
    \o <<",">> \o JsonKey(KEY_AVATAR_URL) \o JsonOptString(u.avatar_url)
    \o <<"}">>

\* struct AuthToken { access_token, refresh_token, expires_at }
AuthTokenToJson(t) ==
  <<"{">> \o JsonKey(KEY_ACCESS_TOKEN) \o JsonString(t.access_token)
    \o <<",">> \o JsonKey(KEY_REFRESH_TOKEN) \o JsonOptString(t.refresh_token)
    \o <<",">> \o JsonKey(KEY_EXPIRES_AT) \o FormatInt(t.expires_at)
    \o <<"}">>

JsonOptUser(o) == IF o = <<>> THEN <<"n","u","l","l">> ELSE UserToJson(o[1])
JsonOptAuthToken(o) ==
  IF o = <<>> THEN <<"n","u","l","l">> ELSE AuthTokenToJson(o[1])

\* struct AuthState: loading and error are #[serde(skip)] and not written
AuthToJson(st) ==
  <<"{">> \o JsonKey(KEY_USER) \o JsonOptUser(st.user)
    \o <<",">> \o JsonKey(KEY_TOKEN) \o JsonOptAuthToken(st.token)
    \o <<",">> \o JsonKey(KEY_REMEMBER_ME) \o JsonBool(st.remember_me)
    \o <<"}">>

\* the value of an Option field: a missing member reads as None
OptMember(v, key) == IF Members(v, key) = {} THEN JNull ELSE Member(v, key)

\* the fields were read: the struct, or the first error
UserOf(id, email, name, avatar_url) ==
  IF id.ok /\ email.ok /\ name.ok /\ avatar_url.ok
  THEN Done([id |-> id.val, email |-> email.val, name |-> name.val,
             avatar_url |-> avatar_url.val], 0)
  ELSE Fail

DecodeUser(v) ==
  IF ~StructOf(v, {KEY_ID, KEY_EMAIL, KEY_NAME, KEY_AVATAR_URL}) THEN Fail
  ELSE IF \E k \in {KEY_ID, KEY_EMAIL, KEY_NAME} : Members(v, k) = {} THEN Fail
  ELSE UserOf(DecodeString(Member(v, KEY_ID)),
              DecodeString(Member(v, KEY_EMAIL)),
              DecodeString(Member(v, KEY_NAME)),
              DecodeOptString(OptMember(v, KEY_AVATAR_URL)))

AuthTokenOf(access_token, refresh_token, expires_at) ==
  IF access_token.ok /\ refresh_token.ok /\ expires_at.ok
  THEN Done([access_token |-> access_token.val,
             refresh_token |-> refresh_token.val,
             expires_at |-> expires_at.val], 0)
  ELSE Fail

DecodeAuthToken(v) ==
  IF ~StructOf(v, {KEY_ACCESS_TOKEN, KEY_REFRESH_TOKEN, KEY_EXPIRES_AT})
  THEN Fail
  ELSE IF \E k \in {KEY_ACCESS_TOKEN, KEY_EXPIRES_AT} : Members(v, k) = {}
  THEN Fail
  ELSE AuthTokenOf(DecodeString(Member(v, KEY_ACCESS_TOKEN)),
                   DecodeOptString(OptMember(v, KEY_REFRESH_TOKEN)),
                   DecodeU64(Member(v, KEY_EXPIRES_AT)))

DecodeOptUser(v) == IF v.t = "null" THEN Done(<<>>, 0) ELSE Some(DecodeUser(v))
DecodeOptAuthToken(v) ==
  IF v.t = "null" THEN Done(<<>>, 0) ELSE Some(DecodeAuthToken(v))

\* (variant) the skipped fields do not start from their defaults
AuthStateOfBusy(user, token, remember_me) ==
  IF user.ok /\ token.ok /\ remember_me.ok
  THEN Done([user |-> user.val, token |-> token.val, loading |-> TRUE,
             error |-> <<[kind |-> "Unknown", msg |-> "hydrated"]>>,
             remember_me |-> remember_me.val], 0)
  ELSE Fail

\* the skipped fields take Default::default(): false and None
AuthStateOf(user, token, remember_me) ==
  IF user.ok /\ token.ok /\ remember_me.ok
  THEN Done([user |-> user.val, token |-> token.val, loading |-> FALSE,
             error |-> <<>>, remember_me |-> remember_me.val], 0)
  ELSE Fail

\* a member named loading or error is an unknown field: read and dropped
DecodeAuthState(v) ==
  IF ~StructOf(v, {KEY_USER, KEY_TOKEN, KEY_REMEMBER_ME}) THEN Fail
  ELSE IF Members(v, KEY_REMEMBER_ME) = {} THEN Fail
  ELSE AuthStateOf(DecodeOptUser(OptMember(v, KEY_USER)),
                   DecodeOptAuthToken(OptMember(v, KEY_TOKEN)),
                   DecodeBool(Member(v, KEY_REMEMBER_ME)))

\* the struct read from the document r
AuthStateOfDocument(r) == IF r.ok THEN DecodeAuthState(r.val) ELSE Fail

\* serde_json::from_str::<AuthState>
AuthFromJson(data) == AuthStateOfDocument(ParseDocument(data))

(***************************************************************************)
(* token_store.rs: TokenState and its derived Serialize / Deserialize      *)
(*                                                                         *)
(* Of the fields of Token the model keeps id, name, symbol, icon and       *)
(* holder_count; Token is #[serde(rename_all = "camelCase")] and all of    *)
(* its fields but id, name and symbol are #[serde(default)].               *)
(***************************************************************************)
KEY_SYMBOL == <<"s","y","m","b","o","l">>
KEY_ICON == <<"i","c","o","n">>
KEY_HOLDER_COUNT == <<"h","o","l","d","e","r","C","o","u","n","t">>
KEY_TOKENS == <<"t","o","k","e","n","s">>
KEY_SELECTED_TOKEN_ID == <<"s","e","l","e","c","t","e","d","_","t","o","k","e","n","_","i","d">>
KEY_SEARCH_QUERY == <<"s","e","a","r","c","h","_","q","u","e","r","y">>
KEY_SORT_BY == <<"s","o","r","t","_","b","y">>
KEY_SORT_DESC == <<"s","o","r","t","_","d","e","s","c">>
KEY_LAST_FETCHED == <<"l","a","s","t","_","f","e","t","c","h","e","d">>

\* enum SortField: a unit variant is written as its name
SortFields == {"MarketCap", "Price", "PriceChange24h", "Liquidity", "Holders", "Volume24h"}
SortFieldName(f) ==
  CASE f = "MarketCap" -> <<"M","a","r","k","e","t","C","a","p">>
    [] f = "Price" -> <<"P","r","i","c","e">>
    [] f = "PriceChange24h" -> <<"P","r","i","c","e","C","h","a","n","g","e","2","4","h">>
    [] f = "Liquidity" -> <<"L","i","q","u","i","d","i","t","y">>
    [] f = "Holders" -> <<"H","o","l","d","e","r","s">>
    [] f = "Volume24h" -> <<"V","o","l","u","m","e","2","4","h">>
SortFieldToJson(f) == JsonString(SortFieldName(f))

TokenToJson(t) ==
  <<"{">> \o JsonKey(KEY_ID) \o JsonString(t.id)
    \o <<",">> \o JsonKey(KEY_NAME) \o JsonString(t.name)
    \o <<",">> \o JsonKey(KEY_SYMBOL) \o JsonString(t.symbol)
    \o <<",">> \o JsonKey(KEY_ICON) \o JsonOptString(t.icon)
    \o <<",">> \o JsonKey(KEY_HOLDER_COUNT) \o FormatInt(t.holder_count)
    \o <<"}">>

RECURSIVE JsonTokenList(_)
JsonTokenList(ts) ==
  IF ts = <<>> THEN <<>>
  ELSE IF Len(ts) = 1 THEN TokenToJson(ts[1])
  ELSE TokenToJson(Head(ts)) \o <<",">> \o JsonTokenList(Tail(ts))

\* struct TokenState: loading and error are #[serde(skip)] and not written
TokenStateToJson(st) ==
  <<"{">> \o JsonKey(KEY_TOKENS) \o <<"[">> \o JsonTokenList(st.tokens) \o <<"]">>
    \o <<",">> \o JsonKey(KEY_SELECTED_TOKEN_ID)
    \o JsonOptString(st.selected_token_id)
    \o <<",">> \o JsonKey(KEY_SEARCH_QUERY) \o JsonString(st.search_query)
    \o <<",">> \o JsonKey(KEY_SORT_BY) \o SortFieldToJson(st.sort_by)
    \o <<",">> \o JsonKey(KEY_SORT_DESC) \o JsonBool(st.sort_desc)
    \o <<",">> \o JsonKey(KEY_LAST_FETCHED) \o JsonOptString(st.last_fetched)
    \o <<"}">>

\* the value of a #[serde(default)] u64 field: a missing member reads as 0
DefaultU64Member(v, key) ==
  IF Members(v, key) = {} THEN JNumber(0) ELSE Member(v, key)

TokenOf(id, name, symbol, icon, holder_count) ==
  IF id.ok /\ name.ok /\ symbol.ok /\ icon.ok /\ holder_count.ok
  THEN Done([id |-> id.val, name |-> name.val, symbol |-> symbol.val,
             icon |-> icon.val, holder_count |-> holder_count.val], 0)
  ELSE Fail

DecodeToken(v) ==
  IF ~StructOf(v, {KEY_ID, KEY_NAME, KEY_SYMBOL, KEY_ICON, KEY_HOLDER_COUNT})
  THEN Fail
  ELSE IF \E k \in {KEY_ID, KEY_NAME, KEY_SYMBOL} : Members(v, k) = {} THEN Fail
  ELSE TokenOf(DecodeString(Member(v, KEY_ID)),
               DecodeString(Member(v, KEY_NAME)),
               DecodeString(Member(v, KEY_SYMBOL)),
               DecodeOptString(OptMember(v, KEY_ICON)),
               DecodeU64(DefaultU64Member(v, KEY_HOLDER_COUNT)))

RECURSIVE DecodeTokenItems(_, _)

TokenRead(t, items, acc) ==
  IF t.ok THEN DecodeTokenItems(items, Append(acc, t.val)) ELSE Fail

DecodeTokenItems(items, acc) ==
  IF items = <<>> THEN Done(acc, 0)
  ELSE TokenRead(DecodeToken(Head(items)), Tail(items), acc)

\* Vec<Token>
DecodeTokens(v) ==
  IF v.t = "array" THEN DecodeTokenItems(v.items, <<>>) ELSE Fail

\* the variant whose name is the string
DecodeSortField(v) ==
  IF v.t = "string" /\ \E f \in SortFields : SortFieldName(f) = v.str
  THEN Done(CHOOSE f \in SortFields : SortFieldName(f) = v.str, 0)
  ELSE Fail

\* the skipped fields take Default::default(): false and None
TokenStateOf(tokens, selected, query, sort_by, sort_desc, last_fetched) ==
  IF tokens.ok /\ selected.ok /\ query.ok /\ sort_by.ok /\ sort_desc.ok
       /\ last_fetched.ok
  THEN Done([tokens |-> tokens.val, selected_token_id |-> selected.val,
             search_query |-> query.val, sort_by |-> sort_by.val,
             sort_desc |-> sort_desc.val, loading |-> FALSE, error |-> <<>>,
             last_fetched |-> last_fetched.val], 0)
  ELSE Fail

DecodeTokenState(v) ==
  IF ~StructOf(v, {KEY_TOKENS, KEY_SELECTED_TOKEN_ID, KEY_SEARCH_QUERY,
                   KEY_SORT_BY, KEY_SORT_DESC, KEY_LAST_FETCHED})
  THEN Fail
  ELSE IF \E k \in {KEY_TOKENS, KEY_SEARCH_QUERY, KEY_SORT_BY, KEY_SORT_DESC} :
            Members(v, k) = {}
  THEN Fail
  ELSE TokenStateOf(DecodeTokens(Member(v, KEY_TOKENS)),
                    DecodeOptString(OptMember(v, KEY_SELECTED_TOKEN_ID)),
                    DecodeString(Member(v, KEY_SEARCH_QUERY)),
                    DecodeSortField(Member(v, KEY_SORT_BY)),
                    DecodeBool(Member(v, KEY_SORT_DESC)),
                    DecodeOptString(OptMember(v, KEY_LAST_FETCHED)))

TokenStateOfDocument(r) == IF r.ok THEN DecodeTokenState(r.val) ELSE Fail

\* serde_json::from_str::<TokenState>
TokenStateFromJson(data) == TokenStateOfDocument(ParseDocument(data))

(***************************************************************************)
(* HydratableStore: serialize_state / from_hydrated_state / store_key      *)
(***************************************************************************)
\* the store types of the model; "opaque" is a store whose serialize_state
\* returns Err(Serialization) for every state but the default one (as a
\* state with a map keyed by a non-string type does: serde_json writes the
\* empty map and refuses any other)
StoreTypes == {"counter", "opaque"}

store_key(ty) == IF ty = "counter" THEN <<"c">> ELSE <<"c","x">>

NoState == [count |-> 0, name |-> <<>>, items |-> <<>>, optional |-> <<>>]

Ok(v) == [ok |-> TRUE, val |-> v, err |-> "none"]
Err(e) == [ok |-> FALSE, val |-> <<>>, err |-> e]

\* serde_json::to_string(&state).map_err(Serialization)
serialize_state(ty, st) ==
  IF ty = "opaque" /\ st # NoState THEN Err("Serialization") ELSE Ok(ToJson(st))

\* .map_err(|e| StoreHydrationError::Deserialization(e.to_string()))
MapDeserialization(r) == IF r.ok THEN Ok(r.val) ELSE Err("Deserialization")

\* (variant) the store is built on the default state, not on the parsed one
from_hydrated_state_default(data) ==
  IF FromJson(data).ok THEN Ok(NoState) ELSE Err("Deserialization")

\* serde_json::from_str(data).map_err(Deserialization)?; Ok(Self { state })
from_hydrated_state(data) == MapDeserialization(FromJson(data))

(***************************************************************************)
(* State                                                                   *)
(***************************************************************************)
VARIABLES
  \* the serialize / embed / deserialize pipeline on one input
  phase,       \* "new", "serialized", "restored", "embedded", "hydrated"
  input,       \* [kind, key, state, raw]: a store state, or a raw data string
  serialized,  \* the data string handed to the client (serialize_state's)
  html,        \* the script element text of hydration_script_html
  restored,    \* the result of from_hydrated_state
  \* the component tree
  side,        \* "server" (native build) or "client" (wasm32 build)
  cells,       \* the signal arena: cells[c] = [ty, state, origin]
  parent,      \* the owner tree: parent[s] is the owner above s (0: root)
  cur,         \* the owner the running component belongs to
  ctx,         \* ctx[s][ty]: the store of the StoreProvider<ty> in s, or 0
  provided,    \* history: <<owner, type, store>> of the last provide_store
               \* call for each owner and type
  dom,         \* the document: a sequence of elements [id, tag, text]
  builder,     \* <<>>, or <<[fallback |-> store or 0]>>: a HydrationBuilder
  last         \* the last call and what it returned

VARIABLES
  \* objects of the library outside the component tree
  stores,      \* StoreRegistry.stores: a map from StoreId to a store
  scoped,      \* the ScopedStoreProvider<S, ID> contexts: a map from
               \* <<owner, <<S, ID>>>> to the store of the provider
  store_builder, \* the StoreBuilder in hand: <<>> (none: not made yet, or
               \* consumed by build / try_build) or <<b>>, where
               \* b.initial_state is the field and b.given is the history
               \* of the states given to with_state
  action,      \* a ReactiveAction: its four signals, and in set_pendings
               \* the number of set_pending calls made so far
  states,      \* the state signals of the example stores: states.auth is
               \* AuthStore.state, states.counter CounterStore.state,
               \* states.token TokenStore.state
  app          \* the auth example: app.mode is the feature of the build
               \* ("ssr", "hydrate", "csr"; "none": not running) and app.pc
               \* the place its rendering has reached

pipe == <<phase, input, serialized, html, restored>>
tree == <<side, cells, parent, cur, ctx, provided, dom, builder, last>>
lib == <<stores, scoped, store_builder, action, states, app>>
vars == <<pipe, tree, lib>>

\* StoreRegistry::new(): HashMap::default()
NoStores == [id \in {} |-> 0]

\* ReactiveAction::new()
ReactiveAction_new ==
  [input |-> <<>>, value |-> <<>>, pending |-> FALSE, version |-> 0,
   set_pendings |-> 0]

\* AuthState::default(): the derived Default
AuthStateDefault ==
  [user |-> <<>>, token |-> <<>>, loading |-> FALSE, error |-> <<>>,
   remember_me |-> FALSE]

\* CounterState::default(): count: i32 = 0
CounterStateDefault == [count |-> 0]

\* TokenState::default(): the derived Default (SortField: #[default]
\* MarketCap)
TokenStateDefault ==
  [tokens |-> <<>>, selected_token_id |-> <<>>, search_query |-> <<>>,
   sort_by |-> "MarketCap", sort_desc |-> FALSE, loading |-> FALSE,
   error |-> <<>>, last_fetched |-> <<>>]

\* AuthStore::new(), CounterStore::new(), TokenStore::new()
ExampleStoresNew ==
  [auth |-> AuthStateDefault, counter |-> CounterStateDefault,
   token |-> TokenStateDefault]

\* the auth example is not running
AppIdle == [mode |-> "none", pc |-> "start"]

\* the library objects before any call
LibInit ==
  /\ stores = NoStores
  /\ scoped = NoStores
  /\ store_builder = <<>>
  /\ action = ReactiveAction_new
  /\ states = ExampleStoresNew
  /\ app = AppIdle

(***************************************************************************)
(* Inputs of the pipeline                                                  *)
(***************************************************************************)
MaxPieces == 2      \* a name is at most this many pieces
MaxRawPieces == 3   \* a raw data string is at most this many pieces

Pieces ==
  { <<"a">>, <<QUOTE>>, <<BSLASH>>, <<"<">>,
    <<"/","s","c","r","i","p","t",">">>,
    SCRIPT_CLOSE,
    <<"<","/","S","C","R","I","P","T",">">>,
    <<"<","/","s","c","r","i","p","t"," ",">">> }

PieceSeqs(n) == UNION {[1..k -> Pieces] : k \in 0..n}
Strings(n) == {Concat(ps) : ps \in PieceSeqs(n)}

CountValues == {-12, 0, I32_MAX}
ItemsValues == {<<>>, <<SCRIPT_CLOSE, <<"a", QUOTE>>>>}
OptionalValues == {<<>>, <<TRUE>>, <<FALSE>>}

States ==
  [count : CountValues, name : Strings(MaxPieces), items : ItemsValues,
   optional : OptionalValues]

Inputs ==
  {[kind |-> "state", key |-> <<"c">>, state |-> st, raw |-> <<>>] : st \in States}
  \cup {[kind |-> "raw", key |-> k, state |-> NoState, raw |-> r] :
          k \in {<<"c">>, <<"c","x">>}, r \in Strings(MaxRawPieces)}

NoResult == Err("none")

(***************************************************************************)
(* The component tree before anything runs                                 *)
(***************************************************************************)
NoStore == 0
\* the store types of the context: those of the tree and AuthStore
ContextTypes == StoreTypes \cup {"auth"}
NoProviders == [ty \in ContextTypes |-> NoStore]
Idle == [op |-> "none", ty |-> "counter", out |-> "unit", store |-> NoStore,
         err |-> "none", arg |-> NoStore]

TreeInit ==
  /\ side = "server"
  /\ cells = <<>>
  /\ parent = <<0>>
  /\ cur = 1
  /\ ctx = <<NoProviders>>
  /\ provided = {}
  /\ dom = <<>>
  /\ builder = <<>>
  /\ last = Idle

(***************************************************************************)
(* The pipeline: serialize_state, hydration_script_html,                   *)
(* from_hydrated_state                                                     *)
(***************************************************************************)
PipeInit ==
  /\ phase = "new"
  /\ input \in Inputs
  /\ serialized = <<>>
  /\ html = <<>>
  /\ restored = NoResult

\* store.serialize_state()
SerializeState ==
  /\ phase = "new"
  /\ input.kind = "state"
  /\ serialized' = serialize_state("counter", input.state).val
  /\ phase' = "serialized"
  /\ UNCHANGED <<input, html, restored, tree, lib>>

\* a caller hands hydration_script_html a data string of its own
RawData ==
  /\ phase = "new"
  /\ input.kind = "raw"
  /\ serialized' = input.raw
  /\ phase' = "serialized"
  /\ UNCHANGED <<input, html, restored, tree, lib>>

\* S::from_hydrated_state(&serialized): the round trip without the page
FromHydratedState ==
  /\ phase = "serialized"
  /\ input.kind = "state"
  /\ restored' = from_hydrated_state(serialized)
  /\ phase' = "restored"
  /\ UNCHANGED <<input, serialized, html, tree, lib>>

\* hydration_script_html(S::store_key(), &serialized)
HydrationScriptHtml ==
  /\ phase = "serialized"
  /\ html' = hydration_script_html(input.key, serialized)
  /\ phase' = "embedded"
  /\ UNCHANGED <<input, serialized, restored, tree, lib>>

\* the text the element was given: html without the opening tag written
\* before the data and the closing tag written after it
EmbeddedText(h, key) ==
  LET open == Len(HTML_OPEN) + Len(hydration_script_id(key)) + Len(HTML_TYPE)
  IN SubSeq(h, open + 1, Len(h) - Len(SCRIPT_CLOSE))

\* the client hands the embedded text to S::from_hydrated_state
HydrateEmbedded ==
  /\ phase = "embedded"
  /\ input.kind = "state"
  /\ restored' = from_hydrated_state(EmbeddedText(html, input.key))
  /\ phase' = "hydrated"
  /\ UNCHANGED <<input, serialized, html, tree, lib>>

PipeNext ==
  \/ SerializeState
  \/ RawData
  \/ FromHydratedState
  \/ HydrationScriptHtml
  \/ HydrateEmbedded

PipeStart == PipeInit /\ TreeInit /\ LibInit

PipeSpec == PipeStart /\ [][PipeNext]_vars


(***************************************************************************)
(* The document (hydration.rs, wasm32 and native builds)                   *)
(***************************************************************************)
MaxDom == 1       \* elements of the page
MaxCells == 2     \* signals ever created in one process
MaxOwners == 2    \* owners (scopes) of the component tree

\* the states the stores of the component tree take
Default == NoState
Busy == [count |-> 7, name |-> SCRIPT_CLOSE, items |-> <<>>, optional |-> <<TRUE>>]
TreeStates == {Default, Busy}

\* the view provide_hydrated_store returns for a store of type ty in state
\* st: <<the script element>> when serialize_state is Ok, <<>> (the unit
\* view) when it is Err. `by` records which call wrote the element; the
\* program does not read it.
hydration_view(ty, st) ==
  LET ser == serialize_state(ty, st) IN
  IF ser.ok
  THEN <<[id |-> hydration_script_id(store_key(ty)), tag |-> "script",
          text |-> EscapeScriptClose(ser.val), by |-> ty]>>
  ELSE <<>>

\* the text of an element the application wrote itself: no JSON value
JUNK == <<"{">>

\* the views and the deserialized texts of the tree's states, computed once
TreeViews == [ty \in StoreTypes, st \in TreeStates |-> hydration_view(ty, st)]
PageTexts ==
  {JUNK} \cup {v[1].text :
                 v \in {TreeViews[ty, st] : ty \in StoreTypes, st \in TreeStates}
                         \ {<<>>}}
TreeHydrated == [t \in PageTexts |-> from_hydrated_state(t)]

\* document.get_element_by_id: the first element of the id, or <<>>
GetElementById(d, id) ==
  LET hits == {i \in 1..Len(d) : d[i].id = id} IN
  IF hits = {} THEN <<>>
  ELSE <<d[CHOOSE i \in hits : \A j \in hits : i <= j]>>

\* the native stub returns false; the wasm32 build asks the document
has_hydration_data(key) ==
  IF side = "server" THEN FALSE
  ELSE GetElementById(dom, hydration_script_id(key)) # <<>>

\* the native stub returns Err(DomError); the wasm32 build returns the text
\* of the script element of the id (a browser has a window and a document)
read_hydration_data(key) ==
  IF side = "server" THEN Err("DomError")
  ELSE LET e == GetElementById(dom, hydration_script_id(key)) IN
       IF e = <<>> THEN Err("NotFound")
       ELSE IF e[1].tag # "script" THEN Err("InvalidData")
       ELSE Ok(e[1].text)

\* read_hydration_data(S::store_key())?; S::from_hydrated_state(&data)
hydrate_store(ty) ==
  LET data == read_hydration_data(store_key(ty)) IN
  IF ~data.ok THEN data ELSE TreeHydrated[data.val]

(***************************************************************************)
(* context.rs: the providers of the owner tree                             *)
(***************************************************************************)
\* use_context::<StoreProvider<S>>(): the provider of the nearest owner,
\* from s upwards, that has one
RECURSIVE Lookup(_, _)
Lookup(s, ty) ==
  IF ctx[s][ty] # NoStore THEN ctx[s][ty]
  ELSE IF parent[s] = 0 THEN NoStore
  ELSE Lookup(parent[s], ty)

use_context(ty) == Lookup(cur, ty)

\* provide_context(StoreProvider::new(store)) in the current owner
provide_store(c) == [ctx EXCEPT ![cur][cells[c].ty] = c]

\* (variant) get() builds a store on a new signal holding a copy of the state
StoreProviderGetCopy(cs, c) ==
  [cells |-> Append(cs, [cs[c] EXCEPT !.origin = c]), store |-> Len(cs) + 1]

\* StoreProvider::get: self.store.clone(); the clone of a store holds the
\* same signal
StoreProviderGet(cs, c) == [cells |-> cs, store |-> c]

\* the history after provide_store of store c by owner s
Provided(s, c) ==
  {p \in provided : ~(p[1] = s /\ p[2] = cells[c].ty)} \cup {<<s, cells[c].ty, c>>}

Result(op, ty, out, store, err, arg) ==
  [op |-> op, ty |-> ty, out |-> out, store |-> store, err |-> err, arg |-> arg]

\* (variant) the provider is looked up in the current owner only
try_use_store_local(ty) ==
  IF ctx[cur][ty] = NoStore
  THEN [cells |-> cells, out |-> "Err", store |-> NoStore,
        err |-> "ContextNotAvailable"]
  ELSE [cells |-> cells, out |-> "Ok", store |-> ctx[cur][ty], err |-> "none"]

\* use_context().map(|p| p.get()).ok_or_else(ContextNotAvailable)
try_use_store(ty) ==
  LET p == use_context(ty) IN
  IF p = NoStore
  THEN [cells |-> cells, out |-> "Err", store |-> NoStore,
        err |-> "ContextNotAvailable"]
  ELSE LET g == StoreProviderGet(cells, p) IN
       [cells |-> g.cells, out |-> "Ok", store |-> g.store, err |-> "none"]

\* use_context().expect("Store not found in context...").get()
use_store(ty) ==
  LET p == use_context(ty) IN
  IF p = NoStore
  THEN [cells |-> cells, out |-> "panic", store |-> NoStore, err |-> "none"]
  ELSE LET g == StoreProviderGet(cells, p) IN
       [cells |-> g.cells, out |-> "Ok", store |-> g.store, err |-> "none"]

(***************************************************************************)
(* The component tree: stores, owners, providers                           *)
(***************************************************************************)
NewCell(ty, st) == [ty |-> ty, state |-> st, origin |-> Len(cells) + 1]

\* S::new(): a store on a new signal
NewStore(ty, st) ==
  /\ Len(cells) < MaxCells
  /\ cells' = Append(cells, NewCell(ty, st))
  /\ last' = Idle
  /\ UNCHANGED <<side, parent, cur, ctx, provided, dom, builder, pipe, lib>>

\* a mutator writes the state through a handle of the store
Mutate(c, st) ==
  /\ cells[c].state # st
  /\ cells' = [cells EXCEPT ![c].state = st]
  /\ last' = Result("mutate", cells[c].ty, "unit", c, "none", NoStore)
  /\ UNCHANGED <<side, parent, cur, ctx, provided, dom, builder, pipe, lib>>

\* a child component is rendered under a new owner
EnterChild ==
  /\ Len(parent) < MaxOwners
  /\ parent' = Append(parent, cur)
  /\ ctx' = Append(ctx, NoProviders)
  /\ cur' = Len(parent) + 1
  /\ last' = Idle
  /\ UNCHANGED <<side, cells, provided, dom, builder, pipe, lib>>

\* the component is done: its parent goes on
Leave ==
  /\ parent[cur] # 0
  /\ cur' = parent[cur]
  /\ last' = Idle
  /\ UNCHANGED <<side, cells, parent, ctx, provided, dom, builder, pipe, lib>>

\* provide_store(store)
ProvideStore(c) ==
  /\ ctx' = provide_store(c)
  /\ provided' = Provided(cur, c)
  /\ last' = Result("provide_store", cells[c].ty, "unit", c, "none", NoStore)
  /\ UNCHANGED <<side, cells, parent, cur, dom, builder, pipe, lib>>

\* use_store::<S>()
UseStore(ty) ==
  LET r == use_store(ty) IN
  /\ cells' = r.cells
  /\ last' = Result("use_store", ty, r.out, r.store, r.err, NoStore)
  /\ UNCHANGED <<side, parent, cur, ctx, provided, dom, builder, pipe, lib>>

\* try_use_store::<S>()
TryUseStore(ty) ==
  LET r == try_use_store(ty) IN
  /\ cells' = r.cells
  /\ last' = Result("try_use_store", ty, r.out, r.store, r.err, NoStore)
  /\ UNCHANGED <<side, parent, cur, ctx, provided, dom, builder, pipe, lib>>


(***************************************************************************)
(* context.rs: hydration-aware context functions                           *)
(***************************************************************************)
\* (variant) a serialization error ends the call before the store is
\* provided
ProvideHydratedStoreOrReturn(c) ==
  LET view == TreeViews[cells[c].ty, cells[c].state] IN
  /\ (side = "server" /\ view # <<>>) => Len(dom) < MaxDom
  /\ ctx' = IF view # <<>> THEN provide_store(c) ELSE ctx
  /\ provided' = Provided(cur, c)
  /\ dom' = IF side = "server" THEN dom \o view ELSE dom
  /\ last' = Result("provide_hydrated_store", cells[c].ty,
                    IF view # <<>> THEN "script" ELSE "unit", c,
                    IF view # <<>> THEN "none" ELSE "Serialization", NoStore)
  /\ UNCHANGED <<side, cells, parent, cur, builder, pipe, lib>>

\* provide_hydrated_store(store): serialize, provide, return the view. On
\* the server the view becomes part of the page.
ProvideHydratedStore(c) ==
  LET view == TreeViews[cells[c].ty, cells[c].state] IN
  /\ (side = "server" /\ view # <<>>) => Len(dom) < MaxDom
  /\ ctx' = provide_store(c)
  /\ provided' = Provided(cur, c)
  /\ dom' = IF side = "server" THEN dom \o view ELSE dom
  /\ last' = Result("provide_hydrated_store", cells[c].ty,
                    IF view # <<>> THEN "script" ELSE "unit", c,
                    IF view # <<>> THEN "none" ELSE "Serialization", NoStore)
  /\ UNCHANGED <<side, cells, parent, cur, builder, pipe, lib>>

\* has_hydration_data and hydrate_store both succeed: the store is built
\* from the data of the document
Hydrates(ty) == has_hydration_data(store_key(ty)) /\ hydrate_store(ty).ok

\* the hydrated store on a new signal, provided in the current owner
Hydrated(ty) ==
  [cells |-> Append(cells, NewCell(ty, hydrate_store(ty).val)),
   ctx |-> [ctx EXCEPT ![cur][ty] = Len(cells) + 1],
   hydrated |-> TRUE, out |-> "Ok", store |-> Len(cells) + 1, err |-> "none"]

\* (variant) the context is asked first, the document only when it has no
\* store
use_hydrated_store_context_first(ty) ==
  IF use_context(ty) = NoStore /\ Hydrates(ty) THEN Hydrated(ty)
  ELSE LET r == use_store(ty) IN
       [cells |-> r.cells, ctx |-> ctx, hydrated |-> FALSE, out |-> r.out,
        store |-> r.store, err |-> r.err]

\* use_hydrated_store::<S>()
use_hydrated_store(ty) ==
  IF Hydrates(ty) THEN Hydrated(ty)
  ELSE LET r == use_store(ty) IN
       [cells |-> r.cells, ctx |-> ctx, hydrated |-> FALSE, out |-> r.out,
        store |-> r.store, err |-> r.err]

\* try_use_hydrated_store::<S>()
try_use_hydrated_store(ty) ==
  IF Hydrates(ty) THEN Hydrated(ty)
  ELSE LET r == try_use_store(ty) IN
       [cells |-> r.cells, ctx |-> ctx, hydrated |-> FALSE, out |-> r.out,
        store |-> r.store,
        err |-> IF r.out = "Err" THEN "NotFound" ELSE "none"]

UseHydratedStore(ty) ==
  LET r == use_hydrated_store(ty) IN
  /\ Len(r.cells) <= MaxCells
  /\ cells' = r.cells
  /\ ctx' = r.ctx
  /\ provided' = IF r.hydrated
                  THEN {p \in provided : ~(p[1] = cur /\ p[2] = ty)}
                         \cup {<<cur, ty, r.store>>}
                  ELSE provided
  /\ last' = Result("use_hydrated_store", ty, r.out, r.store, r.err, NoStore)
  /\ UNCHANGED <<side, parent, cur, dom, builder, pipe, lib>>

TryUseHydratedStore(ty) ==
  LET r == try_use_hydrated_store(ty) IN
  /\ Len(r.cells) <= MaxCells
  /\ cells' = r.cells
  /\ ctx' = r.ctx
  /\ provided' = IF r.hydrated
                  THEN {p \in provided : ~(p[1] = cur /\ p[2] = ty)}
                         \cup {<<cur, ty, r.store>>}
                  ELSE provided
  /\ last' = Result("try_use_hydrated_store", ty, r.out, r.store, r.err, NoStore)
  /\ UNCHANGED <<side, parent, cur, dom, builder, pipe, lib>>

(***************************************************************************)
(* hydration.rs: HydrationBuilder                                          *)
(***************************************************************************)
\* HydrationBuilder::<S>::new()
HydrationBuilderNew(ty) ==
  /\ builder = <<>>
  /\ builder' = <<[ty |-> ty, fallback |-> NoStore]>>
  /\ last' = Idle
  /\ UNCHANGED <<side, cells, parent, cur, ctx, provided, dom, pipe, lib>>

\* builder.with_fallback(store)
WithFallback(c) ==
  /\ builder # <<>>
  /\ cells[c].ty = builder[1].ty
  /\ builder[1].fallback # c
  /\ builder' = <<[builder[1] EXCEPT !.fallback = c]>>
  /\ last' = Idle
  /\ UNCHANGED <<side, cells, parent, cur, ctx, provided, dom, pipe, lib>>

\* (variant) a fallback, when there is one, is returned without looking at
\* the document
try_build_fallback_first(b) ==
  LET h == hydrate_store(b.ty) IN
  IF b.fallback # NoStore
  THEN [cells |-> cells, out |-> "Ok", store |-> b.fallback, err |-> "none"]
  ELSE IF h.ok
  THEN [cells |-> Append(cells, NewCell(b.ty, h.val)), out |-> "Ok",
        store |-> Len(cells) + 1, err |-> "none"]
  ELSE [cells |-> cells, out |-> "Err", store |-> NoStore, err |-> h.err]

\* HydrationBuilder::try_build
try_build(b) ==
  LET h == hydrate_store(b.ty) IN
  IF h.ok
  THEN [cells |-> Append(cells, NewCell(b.ty, h.val)), out |-> "Ok",
        store |-> Len(cells) + 1, err |-> "none"]
  ELSE IF b.fallback # NoStore
  THEN [cells |-> cells, out |-> "Ok", store |-> b.fallback, err |-> "none"]
  ELSE [cells |-> cells, out |-> "Err", store |-> NoStore, err |-> h.err]

\* HydrationBuilder::build
build(b) ==
  LET h == hydrate_store(b.ty) IN
  IF h.ok
  THEN [cells |-> Append(cells, NewCell(b.ty, h.val)), out |-> "Ok",
        store |-> Len(cells) + 1, err |-> "none"]
  ELSE IF b.fallback # NoStore
  THEN [cells |-> cells, out |-> "Ok", store |-> b.fallback, err |-> "none"]
  ELSE [cells |-> cells, out |-> "panic", store |-> NoStore, err |-> h.err]

TryBuild ==
  /\ builder # <<>>
  /\ LET r == try_build(builder[1]) IN
     /\ Len(r.cells) <= MaxCells
     /\ cells' = r.cells
     /\ last' = Result("try_build", builder[1].ty, r.out, r.store, r.err,
                       builder[1].fallback)
  /\ builder' = <<>>
  /\ UNCHANGED <<side, parent, cur, ctx, provided, dom, pipe, lib>>

Build ==
  /\ builder # <<>>
  /\ LET r == build(builder[1]) IN
     /\ Len(r.cells) <= MaxCells
     /\ cells' = r.cells
     /\ last' = Result("build", builder[1].ty, r.out, r.store, r.err,
                       builder[1].fallback)
  /\ builder' = <<>>
  /\ UNCHANGED <<side, parent, cur, ctx, provided, dom, pipe, lib>>

(***************************************************************************)
(* The page on its way to the browser                                      *)
(***************************************************************************)
\* the application renders an element of its own under the id of a store:
\* an element that is no script, or a script whose text is no JSON
RenderOther(ty, tag) ==
  /\ side = "server"
  /\ Len(dom) < MaxDom
  /\ dom' = Append(dom, [id |-> hydration_script_id(store_key(ty)), tag |-> tag,
                         text |-> JUNK, by |-> "app"])
  /\ last' = Idle
  /\ UNCHANGED <<side, cells, parent, cur, ctx, provided, builder, pipe, lib>>

\* the page is sent; the client starts with the document and nothing else
Ship ==
  /\ side = "server"
  /\ side' = "client"
  /\ cells' = <<>>
  /\ parent' = <<0>>
  /\ cur' = 1
  /\ ctx' = <<NoProviders>>
  /\ provided' = {}
  /\ builder' = <<>>
  /\ last' = Idle
  /\ UNCHANGED <<dom, pipe, lib>>

(***************************************************************************)
(* The example stores on their way from the server to the client           *)
(***************************************************************************)
\* AuthStore::serialize_state / TokenStore::serialize_state
auth_serialize_state(st) == Ok(AuthToJson(st))
token_serialize_state(st) == Ok(TokenStateToJson(st))

\* AuthStore::from_hydrated_state / TokenStore::from_hydrated_state
auth_from_hydrated_state(data) == MapDeserialization(AuthFromJson(data))
token_from_hydrated_state(data) == MapDeserialization(TokenStateFromJson(data))

AUTH_STORE_KEY == <<"a","u","t","h","_","s","t","o","r","e">>
TOKEN_STORE_KEY == <<"t","o","k","e","n","_","s","t","o","r","e">>

MaxTokens == 2   \* tokens of a TokenState

Users ==
  {[id |-> <<"1">>, email |-> <<"a">>, name |-> n, avatar_url |-> a] :
     n \in {<<"a">>, <<"a", QUOTE, BSLASH>>}, a \in {<<>>, <<SCRIPT_CLOSE>>}}
AuthTokens ==
  {[access_token |-> <<"a">>, refresh_token |-> <<>>, expires_at |-> 0],
   [access_token |-> <<"a", QUOTE>>, refresh_token |-> <<<<"a">>>>,
    expires_at |-> 3600]}
AuthErrors ==
  {[kind |-> "InvalidCredentials", msg |-> ""],
   [kind |-> "Validation", msg |-> "Email is required"]}

Opt(S) == {<<>>} \cup {<<x>> : x \in S}

AuthStates ==
  [user : Opt(Users), token : Opt(AuthTokens), loading : BOOLEAN,
   error : Opt(AuthErrors), remember_me : BOOLEAN]

Tokens ==
  {[id |-> <<"1">>, name |-> <<"a">>, symbol |-> <<"a">>, icon |-> <<>>,
    holder_count |-> 0],
   [id |-> <<"a">>, name |-> <<"a", QUOTE>>, symbol |-> <<"a">>,
    icon |-> <<SCRIPT_CLOSE>>, holder_count |-> 12]}

TokenStates ==
  [tokens : UNION {[1..n -> Tokens] : n \in 0..MaxTokens},
   selected_token_id : {<<>>, <<<<"1">>>>},
   search_query : {<<>>, <<"a", QUOTE>>},
   sort_by : {"MarketCap", "PriceChange24h"},
   sort_desc : BOOLEAN, loading : BOOLEAN, error : {<<>>, <<<<"a">>>>},
   last_fetched : {<<>>, <<<<"1">>>>}]

ExampleInputs ==
  {[kind |-> "auth", key |-> AUTH_STORE_KEY, state |-> st, raw |-> <<>>] :
     st \in AuthStates}
  \cup {[kind |-> "token", key |-> TOKEN_STORE_KEY, state |-> st, raw |-> <<>>] :
          st \in TokenStates}

\* a store of an example holds some state on the server
ExampleInit ==
  /\ phase = "new"
  /\ input \in ExampleInputs
  /\ serialized = <<>>
  /\ html = <<>>
  /\ restored = NoResult
  /\ TreeInit
  /\ LibInit

\* the server serializes the state of the store
Serializes(kind, data) ==
  /\ phase = "new"
  /\ input.kind = kind
  /\ serialized' = data.val
  /\ phase' = "serialized"
  /\ UNCHANGED <<input, html, restored, tree, lib>>

\* the client builds its store from the data
Deserializes(kind, store) ==
  /\ phase = "serialized"
  /\ input.kind = kind
  /\ restored' = store
  /\ phase' = "restored"
  /\ UNCHANGED <<input, serialized, html, tree, lib>>

AuthSerializeState == Serializes("auth", auth_serialize_state(input.state))
AuthFromHydratedState ==
  Deserializes("auth", auth_from_hydrated_state(serialized))
TokenSerializeState == Serializes("token", token_serialize_state(input.state))
TokenFromHydratedState ==
  Deserializes("token", token_from_hydrated_state(serialized))

ExampleNext ==
  \/ AuthSerializeState
  \/ AuthFromHydratedState
  \/ TokenSerializeState
  \/ TokenFromHydratedState

ExampleSpec == ExampleInit /\ [][ExampleNext]_vars

(***************************************************************************)
(* store.rs: StoreRegistry                                                 *)
(***************************************************************************)
\* StoreId::new::<T>()
StoreIdNew(ty) == [type_id |-> ty, instance_id |-> 0]

\* Store::id, the default implementation: StoreId::new::<Self>()
store_id(c) == StoreIdNew(cells[c].ty)

\* HashMap::insert
Insert(m, k, v) == [x \in (DOMAIN m) \cup {k} |-> IF x = k THEN v ELSE m[x]]

\* HashMap::remove
Remove(m, k) == [x \in (DOMAIN m) \ {k} |-> m[x]]

\* (variant) the store is inserted whether or not the id is taken
register_overwrite(c) ==
  [stores |-> Insert(stores, store_id(c), c), out |-> "Ok", err |-> "none"]

\* StoreRegistry::register
register(c) ==
  IF store_id(c) \in DOMAIN stores
  THEN [stores |-> stores, out |-> "Err", err |-> "AlreadyExists"]
  ELSE [stores |-> Insert(stores, store_id(c), c), out |-> "Ok", err |-> "none"]

\* StoreRegistry::get: the store under StoreId::new::<S>(), or None
registry_get(ty) ==
  IF StoreIdNew(ty) \in DOMAIN stores THEN stores[StoreIdNew(ty)] ELSE NoStore

\* (variant) the store is removed, and false is returned for every call
unregister_silent(ty) ==
  [stores |-> Remove(stores, StoreIdNew(ty)), out |-> "false"]

\* StoreRegistry::unregister: self.stores.remove(&id).is_some()
unregister(ty) ==
  [stores |-> Remove(stores, StoreIdNew(ty)),
   out |-> IF StoreIdNew(ty) \in DOMAIN stores THEN "true" ELSE "false"]

\* StoreRegistry::contains
registry_contains(ty) == StoreIdNew(ty) \in DOMAIN stores

\* StoreRegistry::len
registry_len == Cardinality(DOMAIN stores)

\* StoreRegistry::is_empty
registry_is_empty == DOMAIN stores = {}

Bool(b) == IF b THEN "true" ELSE "false"

\* the registry takes the result r of a call that writes it
RegistryWrites(r) ==
  /\ stores' = r.stores
  /\ UNCHANGED <<side, cells, parent, cur, ctx, provided, dom, builder, pipe,
                 scoped, store_builder, action,
                 states, app>>

\* registry.register(store)
Register(c) ==
  /\ RegistryWrites(register(c))
  /\ last' = Result("register", cells[c].ty, register(c).out, c,
                    register(c).err, NoStore)

\* registry.unregister::<S>()
Unregister(ty) ==
  /\ RegistryWrites(unregister(ty))
  /\ last' = Result("unregister", ty, unregister(ty).out, NoStore, "none",
                    NoStore)

\* a call that reads the registry
RegistryReads(op, ty, out, store, n) ==
  /\ last' = Result(op, ty, out, store, "none", n)
  /\ UNCHANGED <<side, cells, parent, cur, ctx, provided, dom, builder, pipe,
                 lib>>

\* registry.get::<S>()
RegistryGet(ty) ==
  RegistryReads("get", ty,
                IF registry_get(ty) = NoStore THEN "None" ELSE "Some",
                registry_get(ty), NoStore)

\* registry.contains::<S>()
RegistryContains(ty) ==
  RegistryReads("contains", ty, Bool(registry_contains(ty)), NoStore, NoStore)

\* registry.len() and registry.is_empty()
RegistryLen ==
  RegistryReads("len", "counter", Bool(registry_is_empty), NoStore,
                registry_len)

(***************************************************************************)
(* context.rs: ScopedStoreProvider                                         *)
(***************************************************************************)
\* the values of the const generic ID
ScopeIds == {0, 1}

\* (variant) the providers of one store type are one type, whatever the ID
ScopedStoreProviderAnyId(ty, scope) == <<ty, 0>>

\* the type ScopedStoreProvider<S, ID>: the key of the context entry
ScopedStoreProvider(ty, scope) == <<ty, scope>>

\* use_context::<ScopedStoreProvider<S, ID>>(): the provider of the
\* nearest owner, from s upwards, that has one
RECURSIVE LookupScoped(_, _)
LookupScoped(s, key) ==
  IF <<s, key>> \in DOMAIN scoped THEN scoped[<<s, key>>]
  ELSE IF parent[s] = 0 THEN NoStore
  ELSE LookupScoped(parent[s], key)

\* the store of the provider p, or the panic of expect
ScopedFound(p) ==
  IF p = NoStore
  THEN [out |-> "panic", store |-> NoStore]
  ELSE [out |-> "Ok", store |-> StoreProviderGet(cells, p).store]

\* use_scoped_store::<S, ID>()
use_scoped_store(ty, scope) ==
  ScopedFound(LookupScoped(cur, ScopedStoreProvider(ty, scope)))

\* provide_scoped_store::<S, ID>(store)
provide_scoped_store(c, scope) ==
  Insert(scoped, <<cur, ScopedStoreProvider(cells[c].ty, scope)>>, c)

ProvideScopedStore(c, scope) ==
  /\ scoped' = provide_scoped_store(c, scope)
  /\ last' = Result("provide_scoped_store", cells[c].ty, "unit", c, "none",
                    scope)
  /\ UNCHANGED <<side, cells, parent, cur, ctx, provided, dom, builder, pipe,
                 stores, store_builder, action,
                 states, app>>

UseScopedStore(ty, scope) ==
  /\ last' = Result("use_scoped_store", ty, use_scoped_store(ty, scope).out,
                    use_scoped_store(ty, scope).store, "none", scope)
  /\ UNCHANGED <<side, cells, parent, cur, ctx, provided, dom, builder, pipe,
                 lib>>

(***************************************************************************)
(* store.rs: StoreBuilder                                                  *)
(***************************************************************************)
MaxWithState == 4

\* the state of test_store_builder
Answer == [count |-> 42, name |-> <<"t">>, items |-> <<>>, optional |-> <<>>]

BuilderStates == TreeStates \cup {Answer}

\* StoreBuilder::new(): initial_state: None
StoreBuilder_new == [initial_state |-> <<>>, given |-> <<>>]

\* builder.with_state(state): self.initial_state = Some(state)
StoreBuilder_with_state(b, st) ==
  [initial_state |-> <<st>>, given |-> Append(b.given, st)]

\* Option::unwrap_or_default
unwrap_or_default(o) == IF o = <<>> THEN Default ELSE o[1]

\* builder.build(): RwSignal::new(self.initial_state.unwrap_or_default())
StoreBuilder_build(b) ==
  [out |-> "Ok", err |-> "none", state |-> unwrap_or_default(b.initial_state)]

\* (variant) try_build falls back to the Default state, as build does
StoreBuilder_try_build_default(b) == StoreBuilder_build(b)

\* builder.try_build(): initial_state.ok_or_else(NotFound)?, then
\* Ok(RwSignal::new(state))
StoreBuilder_try_build(b) ==
  IF b.initial_state = <<>>
  THEN [out |-> "Err", err |-> "NotFound", state |-> NoState]
  ELSE [out |-> "Ok", err |-> "none", state |-> b.initial_state[1]]

\* a step of the builder: the builder after it and the result of the call
StoreBuilderStep(b, op, out, err, st) ==
  /\ store_builder' = b
  /\ last' = Result(op, "state", out, NoStore, err, st)
  /\ UNCHANGED <<side, cells, parent, cur, ctx, provided, dom, builder, pipe,
                 stores, scoped, action,
                 states, app>>

StoreBuilderNew ==
  /\ store_builder = <<>>
  /\ StoreBuilderStep(<<StoreBuilder_new>>, "StoreBuilder::new", "unit",
                      "none", NoState)

StoreBuilderWithState(st) ==
  /\ store_builder # <<>>
  /\ Len(store_builder[1].given) < MaxWithState
  /\ StoreBuilderStep(<<StoreBuilder_with_state(store_builder[1], st)>>,
                      "StoreBuilder::with_state", "unit", "none", st)

StoreBuilderBuild ==
  /\ store_builder # <<>>
  /\ StoreBuilderStep(<<>>, "StoreBuilder::build",
                      StoreBuilder_build(store_builder[1]).out,
                      StoreBuilder_build(store_builder[1]).err,
                      StoreBuilder_build(store_builder[1]).state)

StoreBuilderTryBuild ==
  /\ store_builder # <<>>
  /\ StoreBuilderStep(<<>>, "StoreBuilder::try_build",
                      StoreBuilder_try_build(store_builder[1]).out,
                      StoreBuilder_try_build(store_builder[1]).err,
                      StoreBuilder_try_build(store_builder[1]).state)

(***************************************************************************)
(* async.rs: ReactiveAction                                                *)
(***************************************************************************)
MaxSetPending == 3

\* the inputs (I) and the outputs (O) of the action
ActionInputs == {1, 2}
ActionOutputs == {1, 2}

\* action.set_input(input)
set_input(a, i) == [a EXCEPT !.input = <<i>>]

\* action.set_value(value)
set_value(a, v) == [a EXCEPT !.value = <<v>>, !.pending = FALSE]

\* action.set_pending(): pending.set(true); version.update(|v| *v += 1)
set_pending(a) ==
  [a EXCEPT !.pending = TRUE, !.version = @ + 1, !.set_pendings = @ + 1]

\* (variant) clear starts the action over, version included
clear_version(a) ==
  [a EXCEPT !.input = <<>>, !.value = <<>>, !.pending = FALSE, !.version = 0]

\* action.clear()
clear(a) == [a EXCEPT !.input = <<>>, !.value = <<>>, !.pending = FALSE]

\* a call on the action: the action after it and what the call returns
ActionStep(a, op, ret) ==
  /\ action' = a
  /\ last' = Result(op, "counter", "unit", NoStore, "none", ret)
  /\ UNCHANGED <<side, cells, parent, cur, ctx, provided, dom, builder, pipe,
                 stores, scoped, store_builder,
                 states, app>>

SetInput(i) == ActionStep(set_input(action, i), "set_input", i)

SetValue(v) == ActionStep(set_value(action, v), "set_value", v)

SetPending ==
  /\ action.set_pendings < MaxSetPending
  /\ ActionStep(set_pending(action), "set_pending", 0)

Clear == ActionStep(clear(action), "clear", 0)

\* action.version()
Version == ActionStep(action, "version", action.version)

(***************************************************************************)
(* auth_store.rs: AuthStore, its mutators and actions                      *)
(***************************************************************************)
USER_ID == <<"user_123">>
MOCK_ACCESS_TOKEN == <<"mock_access_token_xyz">>
MOCK_REFRESH_TOKEN == <<"mock_refresh_token_abc">>
EXPIRES_AT == 3600

\* AuthError::Validation(msg)
Validation(msg) == [kind |-> "Validation", msg |-> msg]

\* the private mutators
set_loading(s, loading) == [s EXCEPT !.loading = loading]
set_error(s, error) == [s EXCEPT !.error = error]
clear_error(s) == [s EXCEPT !.error = <<>>]
set_remember_me(s, remember) == [s EXCEPT !.remember_me = remember]
set_authenticated(s, user, token) ==
  [s EXCEPT !.user = <<user>>, !.token = <<token>>, !.error = <<>>,
            !.loading = FALSE]
clear_auth(s) ==
  [s EXCEPT !.user = <<>>, !.token = <<>>, !.error = <<>>, !.loading = FALSE]

\* email.split('@').next().unwrap_or("User"): the text before the first @
\* (split yields at least one piece)
RECURSIVE BeforeAt(_, _)
BeforeAt(email, i) ==
  IF i > Len(email) \/ email[i] = "@" THEN SubSeq(email, 1, i - 1)
  ELSE BeforeAt(email, i + 1)

\* the user and the token of the simulated login
MockUser(email) ==
  [id |-> USER_ID, email |-> email, name |-> BeforeAt(email, 1),
   avatar_url |-> <<>>]

MockToken ==
  [access_token |-> MOCK_ACCESS_TOKEN, refresh_token |-> <<MOCK_REFRESH_TOKEN>>,
   expires_at |-> EXPIRES_AT]

\* (variant) the password is validated before the email
LoginValidatedPasswordFirst(s, credentials) ==
  IF credentials.password = <<>>
  THEN set_loading(set_error(s, <<Validation("Password is required")>>), FALSE)
  ELSE IF credentials.email = <<>>
  THEN set_loading(set_error(s, <<Validation("Email is required")>>), FALSE)
  ELSE set_authenticated(set_remember_me(s, credentials.remember_me),
                         MockUser(credentials.email), MockToken)

\* login after set_loading(true) and clear_error(): the two validations
\* with their early returns, then the simulated login
LoginValidated(s, credentials) ==
  IF credentials.email = <<>>
  THEN set_loading(set_error(s, <<Validation("Email is required")>>), FALSE)
  ELSE IF credentials.password = <<>>
  THEN set_loading(set_error(s, <<Validation("Password is required")>>), FALSE)
  ELSE set_authenticated(set_remember_me(s, credentials.remember_me),
                         MockUser(credentials.email), MockToken)

\* store.login(credentials)
login(s, credentials) ==
  LoginValidated(clear_error(set_loading(s, TRUE)), credentials)

\* store.logout()
logout(s) == clear_auth(set_loading(s, TRUE))

\* the credentials of the calls
Emails == {<<>>, <<"a", "@", "b">>, <<"@">>}
Passwords == {<<>>, <<"p">>}
LoginCredentials == [email : Emails, password : Passwords, remember_me : BOOLEAN]

\* a call on the AuthStore: its state after the call
AuthStep(s, op, arg) ==
  /\ states' = [states EXCEPT !.auth = s]
  /\ last' = Result(op, "auth", "unit", NoStore, "none", arg)
  /\ UNCHANGED <<side, cells, parent, cur, ctx, provided, dom, builder, pipe,
                 stores, scoped, store_builder, action, app>>

\* AuthStore::with_state(state)
AuthStoreWithState(st) ==
  /\ last.op = "none"
  /\ AuthStep(st, "AuthStore::with_state", 0)

Login(credentials) ==
  AuthStep(login(states.auth, credentials), "login", credentials)

Logout ==
  AuthStep(logout(states.auth), "logout", 0)

(***************************************************************************)
(* The getters of the example stores and ReadonlyStore                     *)
(*                                                                         *)
(* A getter is [state, ret]: the state of the signal after the call and    *)
(* the value returned.                                                     *)
(***************************************************************************)
\* signal.with(f) / signal.with_untracked(f) / signal.get(): f is lent the
\* state, read-only; u is what it returns
With(s, u) == [state |-> s, ret |-> u]

\* the first characters of the words of name from position i on
\* (split_whitespace, then chars().next() of each word)
RECURSIVE WordInitials(_, _)
WordInitials(name, i) ==
  IF i > Len(name) THEN <<>>
  ELSE (IF ~IsWs(name[i]) /\ (i = 1 \/ IsWs(At(name, i - 1)))
        THEN <<name[i]>> ELSE <<>>) \o WordInitials(name, i + 1)

\* .take(2).collect::<String>()
Take2(cs) == SubSeq(cs, 1, IF Len(cs) < 2 THEN Len(cs) ELSE 2)

\* .to_uppercase()
UpperCase(cs) == [i \in 1..Len(cs) |-> ToUpper(cs[i])]

GUEST == <<"G", "u", "e", "s", "t">>

\* AuthState::is_authenticated
AuthState_is_authenticated(s) == s.user # <<>> /\ s.token # <<>>

AuthStoreGetterNames ==
  {"is_authenticated", "current_user", "display_name", "user_email",
   "user_initials", "is_loading", "error", "has_error"}

\* the getter g of AuthStore
AuthStoreGetter(s, g) ==
  CASE g = "is_authenticated" ->
         With(s, AuthState_is_authenticated(s))
    [] g = "current_user" ->
         With(s, s.user)
    [] g = "display_name" ->
         With(s, IF s.user = <<>> THEN GUEST ELSE s.user[1].name)
    [] g = "user_email" ->
         With(s, IF s.user = <<>> THEN <<>> ELSE <<s.user[1].email>>)
    [] g = "user_initials" ->
         With(s, IF s.user = <<>> THEN <<"?">>
               ELSE UpperCase(Take2(WordInitials(s.user[1].name, 1))))
    [] g = "is_loading" ->
         With(s, s.loading)
    [] g = "error" ->
         With(s, s.error)
    [] g = "has_error" ->
         With(s, s.error # <<>>)

\* count * 2 on i32 when it overflows: the wrapped product (release build)
WrappedDouble(count) ==
  IF count > 0
  THEN ((count - I32_MAX) - 1) + ((count - I32_MAX) - 1)
  ELSE ((count + I32_MAX) + 1) + ((count + I32_MAX) + 1)

\* count * 2 overflows i32
DoubleOverflows(count) ==
  count > I32_MAX \div 2 \/ count < (0 - I32_MAX - 1) \div 2

\* s.count * 2: the product; on overflow a panic (debug build) or the
\* wrapped product (release build)
Doubled(count) ==
  IF DoubleOverflows(count)
  THEN {[out |-> "panic", val |-> 0], [out |-> "Ok", val |-> WrappedDouble(count)]}
  ELSE {[out |-> "Ok", val |-> count * 2]}

CounterStoreGetterNames ==
  {"doubled", "is_positive", "is_negative"}

\* the getter g of CounterStore; doubled returns the set of its outcomes
CounterStoreGetter(s, g) ==
  CASE g = "doubled" ->
         With(s, Doubled(s.count))
    [] g = "is_positive" ->
         With(s, s.count > 0)
    [] g = "is_negative" ->
         With(s, s.count < 0)

\* str::to_lowercase
LowerCase(cs) == [i \in 1..Len(cs) |-> ToLower(cs[i])]

\* tokens.retain(..): the tokens whose name, symbol or id holds the query,
\* all in lower case
Matches(t, query) ==
  \/ Contains(LowerCase(t.name), query)
  \/ Contains(LowerCase(t.symbol), query)
  \/ Contains(LowerCase(t.id), query)

RECURSIVE Retain(_, _)
Retain(tokens, query) ==
  IF tokens = <<>> THEN <<>>
  ELSE (IF Matches(Head(tokens), query) THEN <<Head(tokens)>> ELSE <<>>)
         \o Retain(Tail(tokens), query)

\* the key tokens are compared by: holder_count for Holders; the other
\* fields compare f64 values, which the model does not keep: their tokens
\* compare Equal
SortKey(t, field) == IF field = "Holders" THEN t.holder_count ELSE 0

\* the closure of sort_by: partial_cmp, reversed when sort_desc
GreaterBy(a, b, field, desc) ==
  IF desc THEN SortKey(a, field) < SortKey(b, field)
  ELSE SortKey(a, field) > SortKey(b, field)

\* t put into the sorted list before the first token greater than it
RECURSIVE InsertSorted(_, _, _, _)
InsertSorted(sorted, t, field, desc) ==
  IF sorted = <<>> THEN <<t>>
  ELSE IF GreaterBy(Head(sorted), t, field, desc) THEN <<t>> \o sorted
  ELSE <<Head(sorted)>> \o InsertSorted(Tail(sorted), t, field, desc)

\* slice::sort_by: a stable sort
RECURSIVE SortBy(_, _, _, _)
SortBy(sorted, tokens, field, desc) ==
  IF tokens = <<>> THEN sorted
  ELSE SortBy(InsertSorted(sorted, Head(tokens), field, desc), Tail(tokens),
              field, desc)

\* the list filtered_tokens returns: the clone of the tokens, retained when
\* the query is not empty, then sorted
Filtered(s) ==
  SortBy(<<>>,
         IF s.search_query = <<>> THEN s.tokens
         ELSE Retain(s.tokens, LowerCase(s.search_query)),
         s.sort_by, s.sort_desc)

\* (variant) the tokens of the state are filtered and sorted in place
filtered_tokens_in_place(s) ==
  [state |-> [s EXCEPT !.tokens = Filtered(s)], ret |-> Filtered(s)]

\* store.filtered_tokens()
filtered_tokens(s) == With(s, Filtered(s))

\* s.tokens.iter().find(|t| &t.id == id).cloned()
Find(tokens, id) ==
  IF \E i \in 1..Len(tokens) : tokens[i].id = id
  THEN <<tokens[CHOOSE i \in 1..Len(tokens) :
                  /\ tokens[i].id = id
                  /\ \A j \in 1..(i - 1) : tokens[j].id # id]>>
  ELSE <<>>

TokenStoreGetterNames ==
  {"tokens", "filtered_tokens", "selected_token", "token_count",
   "is_loading", "error", "search_query", "search_query_untracked",
   "sort_by", "sort_by_untracked", "is_sort_desc", "is_sort_desc_untracked"}

\* the getter g of TokenStore
TokenStoreGetter(s, g) ==
  CASE g = "tokens" ->
         With(s, s.tokens)
    [] g = "filtered_tokens" ->
         filtered_tokens(s)
    [] g = "selected_token" ->
         With(s, IF s.selected_token_id = <<>> THEN <<>>
               ELSE Find(s.tokens, s.selected_token_id[1]))
    [] g = "token_count" ->
         With(s, Len(s.tokens))
    [] g = "is_loading" ->
         With(s, s.loading)
    [] g = "error" ->
         With(s, s.error)
    [] g = "search_query" ->
         With(s, s.search_query)
    [] g = "search_query_untracked" ->
         With(s, s.search_query)
    [] g = "sort_by" ->
         With(s, s.sort_by)
    [] g = "sort_by_untracked" ->
         With(s, s.sort_by)
    [] g = "is_sort_desc" ->
         With(s, s.sort_desc)
    [] g = "is_sort_desc_untracked" ->
         With(s, s.sort_desc)

ReadonlyStoreGetterNames ==
  {"get", "with"}

\* ReadonlyStore::get: inner.state().get(); ReadonlyStore::with(f):
\* inner.state().with(f), f returning the state it is lent
ReadonlyStoreGetter(s, g) ==
  CASE g = "get" ->
         With(s, s)
    [] g = "with" ->
         With(s, s)

\* the mutators of CounterStore and TokenStore the pages call
reset(s) == [s EXCEPT !.count = 0]
set_count(s, value) == [s EXCEPT !.count = value]
set_search_query(s, query) == [s EXCEPT !.search_query = query]
set_sort_by(s, field) ==
  IF s.sort_by = field THEN [s EXCEPT !.sort_desc = ~s.sort_desc]
  ELSE [s EXCEPT !.sort_by = field, !.sort_desc = TRUE]
select_token(s, id) == [s EXCEPT !.selected_token_id = id]

\* the states and the arguments of the calls
Counts == {0 - 1, 0, 1, I32_MAX}
CounterStates == [count : Counts]
Queries == {<<>>, <<"A">>}
SortChoices == {"MarketCap", "Holders"}
ExampleStoreNames == {"auth", "counter", "token"}

\* a call on an example store: the state of its signal after the call and
\* what the call returns
ExampleStep(store, s, op, ret) ==
  /\ states' = [states EXCEPT ![store] = s]
  /\ last' = Result(op, store, "Ok", NoStore, "none", ret)
  /\ UNCHANGED <<side, cells, parent, cur, ctx, provided, dom, builder, pipe,
                 stores, scoped, store_builder, action, app>>

\* CounterStore::with_state(state), TokenStore::with_state(state)
CounterStoreWithState(st) ==
  /\ last.op = "none"
  /\ ExampleStep("counter", st, "CounterStore::with_state", 0)

TokenStoreWithState(st) ==
  /\ last.op = "none"
  /\ ExampleStep("token", st, "TokenStore::with_state", 0)

AuthStoreGet(g) ==
  ExampleStep("auth", AuthStoreGetter(states.auth, g).state, g,
              AuthStoreGetter(states.auth, g).ret)

CounterStoreDoubled(outcome) ==
  /\ outcome \in CounterStoreGetter(states.counter, "doubled").ret
  /\ ExampleStep("counter", CounterStoreGetter(states.counter, "doubled").state,
                 "doubled", outcome)

CounterStoreGet(g) ==
  ExampleStep("counter", CounterStoreGetter(states.counter, g).state, g,
              CounterStoreGetter(states.counter, g).ret)

TokenStoreGet(g) ==
  ExampleStep("token", TokenStoreGetter(states.token, g).state, g,
              TokenStoreGetter(states.token, g).ret)

ReadonlyStoreGet(store, g) ==
  ExampleStep(store, ReadonlyStoreGetter(states[store], g).state,
              IF g = "get" THEN "ReadonlyStore::get" ELSE "ReadonlyStore::with",
              ReadonlyStoreGetter(states[store], g).ret)

Reset == ExampleStep("counter", reset(states.counter), "reset", 0)

SetCount(value) ==
  ExampleStep("counter", set_count(states.counter, value), "set_count", value)

SetSearchQuery(query) ==
  ExampleStep("token", set_search_query(states.token, query),
              "set_search_query", query)

SetSortBy(field) ==
  ExampleStep("token", set_sort_by(states.token, field), "set_sort_by", field)

SelectToken(id) ==
  ExampleStep("token", select_token(states.token, id), "select_token", id)

PipeIdle ==
  /\ phase = "new"
  /\ input = [kind |-> "raw", key |-> <<"c">>, state |-> NoState, raw |-> <<>>]
  /\ serialized = <<>>
  /\ html = <<>>
  /\ restored = NoResult

Init == PipeIdle /\ TreeInit /\ LibInit

(***************************************************************************)
(* The auth example: main.rs, lib.rs, components.rs                        *)
(***************************************************************************)
\* the features the example is built with, one for each entry point
BuildModes == {"ssr", "hydrate", "csr"}

\* the pages the client may find: no element of the id, the script element
\* with the state of a store or with text that is no AuthState, or another
\* element of the id
AuthElement(tag, text) ==
  [id |-> hydration_script_id(AUTH_STORE_KEY), tag |-> tag, text |-> text,
   by |-> "app"]

AppDocuments ==
  {<<>>, <<AuthElement("script", JUNK)>>, <<AuthElement("div", JUNK)>>}
  \cup {<<AuthElement("script", AuthToJson(st))>> : st \in AuthStates}

\* the example starts in one of its builds; the client has some page
AppInit ==
  /\ PipeIdle
  /\ app \in [mode : BuildModes, pc : {"start"}]
  /\ side = IF app.mode = "ssr" THEN "server" ELSE "client"
  /\ dom \in IF app.mode = "hydrate" THEN AppDocuments ELSE {<<>>}
  /\ cells = <<>>
  /\ parent = <<0>>
  /\ cur = 1
  /\ ctx = <<NoProviders>>
  /\ provided = {}
  /\ builder = <<>>
  /\ last = Idle
  /\ stores = NoStores
  /\ scoped = NoStores
  /\ store_builder = <<>>
  /\ action = ReactiveAction_new
  /\ states = ExampleStoresNew

\* main.rs: the view of leptos_routes renders App; nothing is provided
ServerMain ==
  /\ app.mode = "ssr"
  /\ app.pc = "start"
  /\ app' = [app EXCEPT !.pc = "App"]
  /\ last' = Idle
  /\ UNCHANGED <<side, cells, parent, cur, ctx, provided, dom, builder, pipe,
                 stores, scoped, store_builder, action, states>>

\* lib.rs: hydrate_body(App) (feature hydrate), mount_to_body(App)
\* (feature csr)
Mount ==
  /\ app.mode \in {"hydrate", "csr"}
  /\ app.pc = "start"
  /\ app' = [app EXCEPT !.pc = "App"]
  /\ last' = Idle
  /\ UNCHANGED <<side, cells, parent, cur, ctx, provided, dom, builder, pipe,
                 stores, scoped, store_builder, action, states>>

\* if let Ok(state) = serde_json::from_str::<AuthState>(&data): the state
\* read, else that of AuthStore::new()
StateOrNew(r) == IF r.ok THEN r.val ELSE AuthStateDefault

\* if let Ok(data) = read_hydration_data("auth_store")
DataOrNew(r) == IF r.ok THEN StateOrNew(AuthFromJson(r.val)) ELSE AuthStateDefault

\* the state of the store App provides in the hydrate build
AppStoreState ==
  IF has_hydration_data(AUTH_STORE_KEY)
  THEN DataOrNew(read_hydration_data(AUTH_STORE_KEY))
  ELSE AuthStateDefault

\* App with feature hydrate: the block that provides the store
AppProvides ==
  /\ cells' = Append(cells, NewCell("auth", AppStoreState))
  /\ ctx' = [ctx EXCEPT ![cur]["auth"] = Len(cells) + 1]
  /\ provided' = provided \cup {<<cur, "auth", Len(cells) + 1>>}
  /\ last' = Result("provide_store", "auth", "unit", Len(cells) + 1, "none",
                    NoStore)

\* App: the block under #[cfg(feature = "hydrate")], then the view
App ==
  /\ app.pc = "App"
  /\ app' = [app EXCEPT !.pc = "AuthRouter"]
  /\ IF app.mode = "hydrate" THEN AppProvides
     ELSE /\ last' = Idle
          /\ UNCHANGED <<cells, ctx, provided>>
  /\ UNCHANGED <<side, parent, cur, dom, builder, pipe, stores, scoped,
                 store_builder, action, states>>

\* AuthRouter, the view of the route, in an owner under that of App:
\* use_store::<AuthStore>()
AuthRouter ==
  /\ app.pc = "AuthRouter"
  /\ parent' = Append(parent, cur)
  /\ ctx' = Append(ctx, NoProviders)
  /\ cur' = Len(parent) + 1
  /\ last' = Result("use_store", "auth", use_store("auth").out,
                    use_store("auth").store, "none", NoStore)
  /\ app' = [app EXCEPT !.pc = IF use_store("auth").out = "panic"
                                 THEN "panicked" ELSE "rendered"]
  /\ UNCHANGED <<side, cells, provided, dom, builder, pipe, stores, scoped,
                 store_builder, action, states>>


\* components of one process provide and use stores
Next ==
  \/ \E ty \in StoreTypes, st \in TreeStates : NewStore(ty, st)
  \/ \E c \in 1..Len(cells), st \in TreeStates : Mutate(c, st)
  \/ EnterChild
  \/ Leave
  \/ \E c \in 1..Len(cells) : ProvideStore(c)
  \/ \E ty \in StoreTypes : UseStore(ty)
  \/ \E ty \in StoreTypes : TryUseStore(ty)

Spec == Init /\ [][Next]_vars

\* the server renders the page, the client hydrates its stores from it
HydrationNext ==
  \/ \E ty \in StoreTypes, st \in TreeStates : NewStore(ty, st)
  \/ \E c \in 1..Len(cells) : ProvideStore(c)
  \/ \E c \in 1..Len(cells) : ProvideHydratedStore(c)
  \/ \E ty \in StoreTypes : UseHydratedStore(ty)
  \/ \E ty \in StoreTypes : TryUseHydratedStore(ty)
  \/ \E ty \in StoreTypes, tag \in {"div", "script"} : RenderOther(ty, tag)
  \/ Ship

HydrationSpec == Init /\ [][HydrationNext]_vars

\* the server renders the page, the client builds its stores with a
\* HydrationBuilder
BuilderNext ==
  \/ \E ty \in StoreTypes, st \in TreeStates : NewStore(ty, st)
  \/ \E c \in 1..Len(cells) : ProvideHydratedStore(c)
  \/ \E ty \in StoreTypes, tag \in {"div", "script"} : RenderOther(ty, tag)
  \/ Ship
  \/ \E ty \in StoreTypes : HydrationBuilderNew(ty)
  \/ \E c \in 1..Len(cells) : WithFallback(c)
  \/ TryBuild
  \/ Build

BuilderSpec == Init /\ [][BuilderNext]_vars

\* stores are registered in and removed from a StoreRegistry
RegistryNext ==
  \/ \E ty \in StoreTypes, st \in TreeStates : NewStore(ty, st)
  \/ \E c \in 1..Len(cells) : Register(c)
  \/ \E ty \in StoreTypes : Unregister(ty)
  \/ \E ty \in StoreTypes : RegistryGet(ty)
  \/ \E ty \in StoreTypes : RegistryContains(ty)
  \/ RegistryLen

RegistrySpec == Init /\ [][RegistryNext]_vars

\* a component provides and uses plain and scoped stores
ScopedNext ==
  \/ \E ty \in StoreTypes : NewStore(ty, Default)
  \/ \E c \in 1..Len(cells) : ProvideStore(c)
  \/ \E c \in 1..Len(cells), scope \in ScopeIds : ProvideScopedStore(c, scope)
  \/ \E ty \in StoreTypes : UseStore(ty)
  \/ \E ty \in StoreTypes, scope \in ScopeIds : UseScopedStore(ty, scope)

ScopedSpec == Init /\ [][ScopedNext]_vars

\* a state is built with StoreBuilder
StoreBuilderNext ==
  \/ StoreBuilderNew
  \/ \E st \in BuilderStates : StoreBuilderWithState(st)
  \/ StoreBuilderBuild
  \/ StoreBuilderTryBuild

StoreBuilderSpec == Init /\ [][StoreBuilderNext]_vars

\* a component drives a ReactiveAction
ActionNext ==
  \/ \E i \in ActionInputs : SetInput(i)
  \/ \E v \in ActionOutputs : SetValue(v)
  \/ SetPending
  \/ Clear
  \/ Version

ActionSpec == Init /\ [][ActionNext]_vars

\* a page drives the AuthStore
AuthNext ==
  \/ \E st \in AuthStates : AuthStoreWithState(st)
  \/ \E credentials \in LoginCredentials : Login(credentials)
  \/ Logout

AuthSpec == Init /\ [][AuthNext]_vars

\* the auth example renders its page
AppNext ==
  \/ ServerMain
  \/ Mount
  \/ App
  \/ AuthRouter

AppSpec == AppInit /\ [][AppNext]_vars

\* the stores are independent signals: a behaviour drives one of them, the
\* others staying as new
Drives(store) ==
  \A other \in ExampleStoreNames \ {store} :
    states[other] = ExampleStoresNew[other]

\* a page makes a store, reads it through its getters and writes it
\* through its mutators and actions
GettersNext ==
  \/ last.op = "none" /\ \E st \in AuthStates : AuthStoreWithState(st)
  \/ \E g \in AuthStoreGetterNames : Drives("auth") /\ AuthStoreGet(g)
  \/ \E credentials \in LoginCredentials : Drives("auth") /\ Login(credentials)
  \/ Drives("auth") /\ Logout
  \/ last.op = "none" /\ \E st \in CounterStates : CounterStoreWithState(st)
  \/ \E outcome \in Doubled(states.counter.count) :
       Drives("counter") /\ CounterStoreDoubled(outcome)
  \/ \E g \in CounterStoreGetterNames \ {"doubled"} :
       Drives("counter") /\ CounterStoreGet(g)
  \/ Drives("counter") /\ Reset
  \/ \E value \in Counts : Drives("counter") /\ SetCount(value)
  \/ last.op = "none" /\ \E st \in TokenStates : TokenStoreWithState(st)
  \/ \E g \in TokenStoreGetterNames : Drives("token") /\ TokenStoreGet(g)
  \/ \E query \in Queries : Drives("token") /\ SetSearchQuery(query)
  \/ \E field \in SortChoices : Drives("token") /\ SetSortBy(field)
  \/ \E id \in {<<>>, <<<<"a">>>>} : Drives("token") /\ SelectToken(id)
  \/ \E store \in ExampleStoreNames, g \in ReadonlyStoreGetterNames :
       Drives(store) /\ ReadonlyStoreGet(store, g)

GettersSpec == Init /\ [][GettersNext]_vars

C2_EscapePreservesValue ==
  phase = "hydrated" =>
    /\ EmbeddedText(html, input.key) = EscapeScriptClose(serialized)
    /\ restored = from_hydrated_state(serialized)
    /\ restored.ok /\ restored.val = input.state

\* a state whose serialized text holds "</script>" was escaped and hydrated
C2_Witness ==
  /\ phase = "hydrated"
  /\ Contains(serialized, SCRIPT_CLOSE)
  /\ EmbeddedText(html, input.key) # serialized
  /\ restored.ok

RECURSIVE SkipSpaces(_, _)
SkipSpaces(s, i) == IF At(s, i) = " " THEN SkipSpaces(s, i + 1) ELSE i

\* t holds the closing tag of a script element: "</", the letters of
\* "script" in any case, optional spaces, ">"
HasScriptEndTag(t) ==
  \E i \in 1..Len(t) :
    /\ MatchAt(t, i, <<"<","/">>)
    /\ \A k \in 1..6 : ToLower(At(t, i + 1 + k)) = SCRIPT_CLOSE[k + 2]
    /\ At(t, SkipSpaces(t, i + 8)) = ">"

\* C4: after escaping, the data part of the output of hydration_script_html
\* contains no closing tag of a script element, in any letter case or with
\* whitespace before the '>'.
C4_NoEndTagInData ==
  phase = "embedded" => ~HasScriptEndTag(EmbeddedText(html, input.key))


(***************************************************************************)
(* Properties of the context providers (checked under Spec)                *)
(***************************************************************************)
\* the store of the last provide_store call for ty by the nearest owner,
\* from s upwards, that made one; NoStore when none did
RECURSIVE NearestProvided(_, _)
NearestProvided(s, ty) ==
  LET here == {p \in provided : p[1] = s /\ p[2] = ty} IN
  IF here # {} THEN (CHOOSE p \in here : TRUE)[3]
  ELSE IF parent[s] = 0 THEN NoStore
  ELSE NearestProvided(parent[s], ty)

\* C6: try_use_store never panics; it returns Ok with a handle of the
\* provided store when provide_store was called in an enclosing scope and
\* Err(ContextNotAvailable) otherwise; use_store panics exactly when
\* try_use_store returns Err and otherwise returns the same store.
C6_LookupFailsPredictably ==
  /\ last.op = "try_use_store" =>
       LET p == NearestProvided(cur, last.ty) IN
       /\ last.out \in {"Ok", "Err"}
       /\ last.out = "Ok" <=> p # NoStore
       /\ last.out = "Ok" => last.store = p
       /\ last.out = "Err" => last.err = "ContextNotAvailable"
  /\ last.op = "use_store" =>
       LET t == try_use_store(last.ty) IN
       /\ last.out \in {"Ok", "panic"}
       /\ last.out = "panic" <=> t.out = "Err"
       /\ last.out = "Ok" => t.out = "Ok" /\ last.store = t.store

\* try_use_store found the store an owner above the current one provided
C6_Witness ==
  /\ last.op = "try_use_store"
  /\ last.out = "Ok"
  /\ parent[cur] # 0
  /\ \A p \in provided : p[1] # cur

\* C7: a handle returned by use_store is on the state cell of the store
\* passed to provide_store, and all handles of one store read the same
\* state, whatever was written through any of them.
C7_HandlesShareCell ==
  /\ last.op = "use_store" /\ last.out = "Ok" =>
       cells[last.store].origin = NearestProvided(cur, last.ty)
  /\ \A c \in DOMAIN cells : cells[c].state = cells[cells[c].origin].state

\* a store that was provided and handed out by use_store has been written
C7_Witness ==
  /\ last.op = "mutate"
  /\ \E p \in provided : p[3] = last.store /\ p[1] # cur
  /\ use_store(last.ty).out = "Ok"
  /\ use_store(last.ty).store = last.store

(***************************************************************************)
(* Properties of hydration in the tree (checked under HydrationSpec)       *)
(***************************************************************************)
ScriptId(ty) == HYDRATION_SCRIPT_PREFIX \o store_key(ty)

\* the first element of the document under the script id of ty, or <<>>
FirstUnder(ty) ==
  LET hits == {i \in DOMAIN dom : dom[i].id = ScriptId(ty)} IN
  IF hits = {} THEN <<>> ELSE <<dom[CHOOSE i \in hits : \A j \in hits : i <= j]>>

\* C5: the element id written on the server for a store key is the id
\* looked up on the client: both are HYDRATION_SCRIPT_PREFIX followed by
\* the key, and two different keys never produce the same id.
C5_SameScriptId ==
  /\ \A i \in DOMAIN dom :
       dom[i].by \in StoreTypes =>
         /\ dom[i].id = ScriptId(dom[i].by)
         /\ \A ty \in StoreTypes \ {dom[i].by} :
              dom[i].id # hydration_script_id(store_key(ty))
  /\ \A ty \in StoreTypes :
       /\ StartsWith(hydration_script_html(store_key(ty), <<>>),
                     HTML_OPEN \o ScriptId(ty) \o <<QUOTE>>)
       /\ side = "client" =>
            /\ has_hydration_data(store_key(ty)) <=> FirstUnder(ty) # <<>>
            /\ read_hydration_data(store_key(ty)).err = "NotFound"
                 <=> FirstUnder(ty) = <<>>

\* the client looks up an element the server wrote for the key "cx" and
\* finds none under the key "c"
C5_Witness ==
  /\ side = "client"
  /\ \E i \in DOMAIN dom : dom[i].by = "opaque"
  /\ has_hydration_data(store_key("opaque"))
  /\ ~has_hydration_data(store_key("counter"))
  /\ last.op = "use_hydrated_store" /\ last.ty = "opaque" /\ last.out = "Ok"

\* hydration data for ty is in the document and deserializes
DataOk(ty) ==
  /\ side = "client"
  /\ FirstUnder(ty) # <<>>
  /\ FirstUnder(ty)[1].tag = "script"
  /\ TreeHydrated[FirstUnder(ty)[1].text].ok

\* C8: use_hydrated_store and try_use_hydrated_store return the hydrated
\* store, provided to context, when hydration data exists and deserializes;
\* else the store found in context; else Err(NotFound), or a panic of
\* use_hydrated_store.
C8_HydratedThenContext ==
  last.op \in {"use_hydrated_store", "try_use_hydrated_store"} =>
    IF DataOk(last.ty)
    THEN /\ last.out = "Ok"
         /\ cells[last.store].state = TreeHydrated[FirstUnder(last.ty)[1].text].val
         /\ cells[last.store].ty = last.ty
         /\ ctx[cur][last.ty] = last.store
    ELSE IF NearestProvided(cur, last.ty) # NoStore
    THEN last.out = "Ok" /\ last.store = NearestProvided(cur, last.ty)
    ELSE IF last.op = "try_use_hydrated_store"
    THEN last.out = "Err" /\ last.err = "NotFound"
    ELSE last.out = "panic"

\* the document holds a script that does not deserialize and the store of
\* the context was returned
C8_Witness ==
  /\ last.op = "try_use_hydrated_store"
  /\ side = "client"
  /\ FirstUnder(last.ty) # <<>>
  /\ ~DataOk(last.ty)
  /\ last.out = "Ok"

\* C10: provide_hydrated_store always provides the store, so use_store
\* succeeds afterwards; the script element is rendered exactly when
\* serialize_state returns Ok; a serialization error does not fail the call.
C10_ProvidedWhateverSerialization ==
  last.op = "provide_hydrated_store" =>
    LET ser == serialize_state(last.ty, cells[last.store].state) IN
    /\ last.out \in {"script", "unit"}
    /\ use_store(last.ty).out = "Ok"
    /\ use_store(last.ty).store = last.store
    /\ last.out = "script" <=> ser.ok
    /\ (ser.ok /\ side = "server") =>
         /\ dom # <<>>
         /\ dom[Len(dom)].by = last.ty
         /\ dom[Len(dom)].tag = "script"
         /\ dom[Len(dom)].text = EscapeScriptClose(ser.val)

\* serialize_state failed and the store is in the context all the same
C10_Witness ==
  /\ last.op = "provide_hydrated_store"
  /\ last.out = "unit"
  /\ last.err = "Serialization"
  /\ use_store(last.ty).store = last.store

(***************************************************************************)
(* Properties of HydrationBuilder (checked under BuilderSpec)              *)
(***************************************************************************)
\* the error of hydrate_store when DataOk does not hold
HydrationError(ty) ==
  IF side = "server" THEN "DomError"
  ELSE IF FirstUnder(ty) = <<>> THEN "NotFound"
  ELSE IF FirstUnder(ty)[1].tag # "script" THEN "InvalidData"
  ELSE "Deserialization"

\* C9: try_build returns the hydrated store whenever hydrate_store succeeds
\* (the fallback is ignored); when hydration fails, Ok(fallback) if there is
\* one, else Err with the hydration error; build returns the same store in
\* the Ok cases and panics exactly when try_build would return Err.
C9_BuilderFallback ==
  /\ last.op \in {"try_build", "build"} =>
       IF DataOk(last.ty)
       THEN /\ last.out = "Ok"
            /\ last.store # last.arg
            /\ cells[last.store].ty = last.ty
            /\ cells[last.store].state = TreeHydrated[FirstUnder(last.ty)[1].text].val
       ELSE IF last.arg # NoStore
       THEN last.out = "Ok" /\ last.store = last.arg
       ELSE /\ last.out = IF last.op = "build" THEN "panic" ELSE "Err"
            /\ last.err = HydrationError(last.ty)
  /\ last.op = "build" =>
       LET t == try_build([ty |-> last.ty, fallback |-> last.arg]) IN
       /\ last.out = "panic" <=> t.out = "Err"
       /\ last.out = "Ok" =>
            /\ t.out = "Ok"
            /\ t.cells[t.store].state = cells[last.store].state
            /\ t.store = last.arg <=> last.store = last.arg

\* a builder with a fallback hydrated the store from the document
C9_Witness ==
  /\ last.op = "try_build"
  /\ DataOk(last.ty)
  /\ last.arg # NoStore
  /\ last.out = "Ok"

(***************************************************************************)
(* Properties of StoreRegistry (checked under RegistrySpec)                *)
(***************************************************************************)
\* C11: register of a store whose type is already registered returns
\* Err(AlreadyExists) and leaves the registry unchanged: get returns the
\* store registered first and len() is the same.
C11_DuplicateRegisterRejected ==
  [][\A ty \in StoreTypes :
       (last'.op = "register" /\ last'.ty = ty /\ registry_contains(ty)) =>
         /\ last'.out = "Err"
         /\ last'.err = "AlreadyExists"
         /\ registry_get(ty)' = registry_get(ty)
         /\ registry_len' = registry_len]_vars

\* a second store of a registered type was refused and the first one is
\* still the registered one
C11_Witness ==
  /\ last.op = "register"
  /\ last.out = "Err"
  /\ registry_get(last.ty) # NoStore
  /\ registry_get(last.ty) # last.store

\* the store types that have a store in the registry
RegisteredTypes == {ty \in StoreTypes : registry_contains(ty)}

\* what holds of the registry in every state
RegistryConsistent ==
  /\ \A ty \in StoreTypes :
       Cardinality({k \in DOMAIN stores : k.type_id = ty}) <= 1
  /\ registry_len = Cardinality(RegisteredTypes)
  /\ registry_is_empty <=> registry_len = 0
  /\ last.op = "len" => last.arg = registry_len
                          /\ (last.out = "true" <=> last.arg = 0)
  /\ last.op = "unregister" =>
       /\ ~registry_contains(last.ty)
       /\ \A c \in DOMAIN cells :
            cells[c].ty = last.ty => register(c).out = "Ok"

\* C20: after any sequence of register and unregister calls the registry
\* holds at most one store per type, len() is the number of registered
\* types, is_empty() holds exactly when len() is 0, and unregister returns
\* true exactly when the type was registered just before the call; after
\* it contains is false and the type can be registered again.
C20_RegistryCounts ==
  /\ []RegistryConsistent
  /\ [][\A ty \in StoreTypes :
          (last'.op = "unregister" /\ last'.ty = ty) =>
            (last'.out = "true" <=> registry_contains(ty))]_vars

\* a registered type was unregistered while another one stays registered
C20_Witness ==
  /\ last.op = "unregister"
  /\ last.out = "true"
  /\ registry_len = 1
  /\ \E c \in DOMAIN cells : cells[c].ty = last.ty

Lookups == {<<ty>> : ty \in StoreTypes} \cup (StoreTypes \X ScopeIds)

\* what every lookup but k returns
OtherLookups(k) ==
  [l \in Lookups \ {k} |->
     IF Len(l) = 1 THEN use_store(l[1]).store
     ELSE use_scoped_store(l[1], l[2]).store]

\* C13: use_scoped_store::<S, ID>() returns the store given to
\* provide_scoped_store::<S, ID> with the same ID: after
\* provide_scoped_store::<S, ID>(store) the scoped lookup of S and ID
\* returns that store, and every other lookup (the scoped lookups of the
\* other IDs and types, and plain use_store) returns what it returned
\* before; provide_store::<S> changes the plain lookup of S and nothing
\* else; and use_scoped_store returns exactly the store of that lookup.
C13_ScopedIndependent ==
  /\ [](last.op = "use_scoped_store" =>
          /\ last.out = use_scoped_store(last.ty, last.arg).out
          /\ last.store = use_scoped_store(last.ty, last.arg).store)
  /\ [][\A ty \in StoreTypes :
          /\ \A scope \in ScopeIds :
               (last'.op = "provide_scoped_store" /\ last'.ty = ty
                  /\ last'.arg = scope) =>
                 /\ use_scoped_store(ty, scope)' =
                      [out |-> "Ok", store |-> last'.store]
                 /\ OtherLookups(<<ty, scope>>)' = OtherLookups(<<ty, scope>>)
          /\ (last'.op = "provide_store" /\ last'.ty = ty) =>
               /\ use_store(ty)'.store = last'.store
               /\ OtherLookups(<<ty>>)' = OtherLookups(<<ty>>)]_vars

\* a scoped lookup returns its store while the other ID and the plain
\* provider of the same type hold another store
C13_Witness ==
  /\ last.op = "use_scoped_store"
  /\ last.out = "Ok"
  /\ \E scope \in ScopeIds \ {last.arg} :
       /\ use_scoped_store(last.ty, scope).out = "Ok"
       /\ use_scoped_store(last.ty, scope).store # last.store
  /\ use_store(last.ty).out = "Ok"
  /\ use_store(last.ty).store # last.store

(***************************************************************************)
(* Properties of StoreBuilder (checked under StoreBuilderSpec)             *)
(***************************************************************************)
\* the state of the last with_state call of builder b, or the Default state
LastGiven(b) == IF b.given = <<>> THEN Default ELSE b.given[Len(b.given)]

\* C14: StoreBuilder::build never fails: it returns a signal holding the
\* state given to the last with_state call, or the Default state when
\* with_state was never called; StoreBuilder::try_build returns
\* Err(StoreError::NotFound) exactly when with_state was never called and
\* otherwise Ok with the state of the last with_state call.
C14_BuildNeverFails ==
  [][/\ last'.op = "StoreBuilder::build" =>
          /\ last'.out = "Ok"
          /\ last'.arg = LastGiven(store_builder[1])
     /\ last'.op = "StoreBuilder::try_build" =>
          /\ (last'.out = "Err") <=> (store_builder[1].given = <<>>)
          /\ last'.out = "Err" => last'.err = "NotFound"
          /\ last'.out # "Err" =>
               /\ last'.out = "Ok"
               /\ last'.arg = LastGiven(store_builder[1])]_vars

\* try_build has returned the state given to with_state
C14_Witness ==
  /\ last.op = "StoreBuilder::try_build"
  /\ last.out = "Ok"
  /\ last.arg = Answer

(***************************************************************************)
(* Properties of ReactiveAction (checked under ActionSpec)                 *)
(***************************************************************************)
\* C15: after any sequence of set_input, set_pending, set_value and clear
\* calls on a ReactiveAction, version() equals the number of set_pending
\* calls made so far: it starts at 0, set_pending adds exactly 1, and
\* set_input, set_value and clear never change it.
C15_VersionCountsSetPending ==
  /\ [](/\ action.version = action.set_pendings
        /\ last.op = "version" => last.arg = action.set_pendings)
  /\ [][/\ last'.op = "set_pending" => action'.version = action.version + 1
        /\ last'.op \in {"set_input", "set_value", "clear"} =>
             action'.version = action.version]_vars

\* version() is read after set_pending calls and a clear
C15_Witness ==
  /\ last.op = "version"
  /\ last.arg = 2
  /\ action.input = <<>>
  /\ action.value = <<>>
  /\ ~action.pending

(***************************************************************************)
(* Properties of the AuthStore (checked under AuthSpec)                    *)
(***************************************************************************)
\* C16: AuthStore::login validates before authenticating: with an empty
\* email it sets error to Validation("Email is required"), with a non-empty
\* email and an empty password it sets error to
\* Validation("Password is required"), and in both cases user and token are
\* left unchanged; with both non-empty it sets user (with the given email)
\* and token, sets remember_me to the given value and clears any previous
\* error.
C16_LoginValidates ==
  [][last'.op = "login" =>
       /\ last'.arg.email = <<>> =>
            /\ states'.auth.error = <<Validation("Email is required")>>
            /\ states'.auth.user = states.auth.user
            /\ states'.auth.token = states.auth.token
       /\ (last'.arg.email # <<>> /\ last'.arg.password = <<>>) =>
            /\ states'.auth.error = <<Validation("Password is required")>>
            /\ states'.auth.user = states.auth.user
            /\ states'.auth.token = states.auth.token
       /\ (last'.arg.email # <<>> /\ last'.arg.password # <<>>) =>
            /\ states'.auth.user # <<>>
            /\ states'.auth.user[1].email = last'.arg.email
            /\ states'.auth.token # <<>>
            /\ states'.auth.remember_me = last'.arg.remember_me
            /\ states'.auth.error = <<>>]_vars

\* a login with no password has failed on a store that holds a user
C16_Witness ==
  /\ last.op = "login"
  /\ last.arg.email # <<>>
  /\ last.arg.password = <<>>
  /\ states.auth.user # <<>>
  /\ states.auth.error = <<Validation("Password is required")>>

(***************************************************************************)
(* Properties of the auth example (checked under AppSpec)                  *)
(***************************************************************************)
\* C17: in the auth example, in every build mode (ssr on the server,
\* hydrate on the client, csr), an AuthStore has been provided to context
\* before AuthRouter calls use_store::<AuthStore>(), so that lookup never
\* panics; on the server the store is provided before App is rendered.
C17_StoreProvidedBeforeUse ==
  /\ (last.op = "use_store" /\ last.ty = "auth") => last.out = "Ok"
  /\ (app.mode = "ssr" /\ app.pc = "App") => use_context("auth") # NoStore

(***************************************************************************)
(* The hydrated store as a singleton (checked under HydrationSpec)         *)
(***************************************************************************)
\* C19: once use_hydrated_store::<S>() has hydrated a store from the DOM,
\* every later use_hydrated_store::<S>() or use_store::<S>() call in the
\* same component tree returns a handle to the same state cell (the
\* hydrated store is a singleton): here for the call that comes next.
C19_HydratedSingleton ==
  [][(/\ last.op = "use_hydrated_store"
      /\ last.out = "Ok"
      /\ DataOk(last.ty)
      /\ last'.op \in {"use_hydrated_store", "use_store"}
      /\ last'.ty = last.ty
      /\ last'.out = "Ok") => last'.store = last.store]_vars

(***************************************************************************)
(* Properties of the getters (checked under GettersSpec)                   *)
(***************************************************************************)
GetterNames ==
  AuthStoreGetterNames \cup CounterStoreGetterNames \cup TokenStoreGetterNames
    \cup {"ReadonlyStore::get", "ReadonlyStore::with"}

\* C18: only mutators write state: every getter of the example stores
\* (AuthStore, CounterStore and TokenStore getters) and ReadonlyStore::get /
\* ReadonlyStore::with leave the store state unchanged, for every state: a
\* step of a getter leaves the states of all the stores as they were, and a
\* step that changes a state is not a getter's.
C18_GettersLeaveState ==
  [][/\ last'.op \in GetterNames => states' = states
     /\ states' # states => last'.op \notin GetterNames]_vars

\* filtered_tokens has returned a list that is not the list of the state
C18_Witness ==
  /\ last.op = "filtered_tokens"
  /\ last.arg # states.token.tokens
  /\ Len(last.arg) = 2

=============================================================================
